---- MODULE Spec2Model ----
(***************************************************************************)
(* A model of the Multi-Paxos replica process of nwtnni/paxos               *)
(* (src/paxos/src): Acceptor, Scout, Commander, Leader and Replica tasks,   *)
(* the shared forwarding hub, stable storage and process crash / restart.   *)
(*                                                                          *)
(* Every task handler (one iteration of the `while let` loop of a `poll`)   *)
(* is one atomic action.  Messages between servers are kept in the set      *)
(* `msgs` and are never removed from it: a message may be handled late,     *)
(* more than once (retransmission) or never (loss).                         *)
(***************************************************************************)
EXTENDS Integers, Sequences, FiniteSets, TLC

(***************************************************************************)
(* Bounds of the model.                                                     *)
(***************************************************************************)
MaxSeq      == 4   \* largest ballot sequence number a Leader moves to
MaxSlot     == 2   \* largest slot an injected pvalue / decision carries
MaxKey      == 3   \* command keys (client id, local id) are 1..MaxKey
MaxRequests == 2   \* client requests accepted by the replicas of a run
MaxData     == 1   \* command payloads are 1..MaxData
MaxCrashes  == 1   \* process crashes of a run
MaxBallot   == 2   \* largest sequence number of an injected ballot
MaxInputs   == 4   \* P1A / P2A messages given to an Acceptor driven on its own
MaxDecisions == 3  \* Decision messages given to a Replica driven on its own
MaxBefore   == 2   \* inputs an Acceptor takes before the save that is cut short
MaxSends    == 2   \* messages sent through a hub driven on its own
MaxLinks    == 3   \* connections made by a hub driven on its own
MaxPings    == 2   \* Pings a Peer task sends on a connection driven on its own
MaxCount    == 3   \* servers of the cluster of a Leader driven on its own
MaxForeign  == 1   \* ballot numbers of the other Leader that answers carry
MaxReplies  == 4   \* answers and proposals given to a Leader driven on its own
MaxLost     == 2   \* requests of a Scout or Commander that the network loses

VARIABLES
    count,       \* Config.count: number of servers of the cluster
    up,          \* up[i]: the process of server i is running
    aStable,     \* Acceptor.stable of server i (in memory)
    aDisk,       \* content of acceptor-NN.paxos
    lStable,     \* Leader.stable of server i (in memory)
    lDisk,       \* content of leader-NN.paxos
    active,      \* Leader.active
    lInbox,      \* messages queued in the Leader's rx
    scouts,      \* live Scout tasks of server i
    commanders,  \* live Commander tasks of server i
    rStable,     \* Replica.stable of server i (in memory)
    rDisk,       \* content of replica-NN.paxos
    executed,    \* calls of State::execute made on Replica.state, in order
    msgs,        \* peer::In messages sent so far, each with its destination
    hist,        \* history: what clients requested, what acceptors accepted, ...
    sched,       \* number of steps taken of the schedule of a scheduled run
    store,       \* a Storage driven on its own: its file, cursor, last save and load
    hub,         \* a forwarding hub (shared::State) driven on its own
    peers        \* peers[i]: the servers registered in the peers map of server i

vars == <<count, up, aStable, aDisk, lStable, lDisk, active, lInbox, scouts,
          commanders, rStable, rDisk, executed, msgs, hist, sched, store, hub, peers>>

Srv == 0 .. (count - 1)

(***************************************************************************)
(* message.rs                                                               *)
(***************************************************************************)
Ballot(b, l) == [b_id |-> b, l_id |-> l]

\* #[derive(PartialOrd, Ord)] on Ballot: lexicographic, b_id first.
BallotLt(x, y) == x.b_id < y.b_id \/ (x.b_id = y.b_id /\ x.l_id < y.l_id)

BallotLe(x, y) == x = y \/ BallotLt(x, y)

BallotMax(x, y) == IF BallotLt(x, y) THEN y ELSE x

\* A user command: its client id, its client-local id and its payload.
Cmd(c, l, d) == [client_id |-> c, local_id |-> l, data |-> d]

\* impl PartialEq for Command: the payload is not compared.
CmdEq(x, y) == x.client_id = y.client_id /\ x.local_id = y.local_id

PValue(s, b, c) == [s_id |-> s, b_id |-> b, command |-> c]

\* Absent record of a storage file (nothing written, or not deserializable).
NoRecord == [absent |-> TRUE]

\* Functions with a finite set of slots as domain model HashMap<usize, _>.
EmptyMap == [s \in {} |-> 0]

MapInsert(m, k, v) == [x \in (DOMAIN m) \cup {k} |-> IF x = k THEN v ELSE m[x]]

MapRemove(m, k) == [x \in (DOMAIN m) \ {k} |-> m[x]]

(***************************************************************************)
(* shared.rs: the forwarding hub.  A message for server `to` (the own id   *)
(* or a peer) is sent by adding it to msgs.                                 *)
(***************************************************************************)
P1AMsg(b, d, to) == [type |-> "P1A", b_id |-> b, decided |-> d, to |-> to]

P1BMsg(a, b, pvs, to) ==
    [type |-> "P1B", a_id |-> a, b_id |-> b, pvalues |-> pvs, to |-> to]

P2AMsg(pv, to) == [type |-> "P2A", pvalue |-> pv, to |-> to]

P2BMsg(cb, cs, a, b, to) ==
    [type |-> "P2B", c_b |-> cb, c_s |-> cs, a_id |-> a, b_id |-> b, to |-> to]

DecisionMsg(s, c, to) == [type |-> "Decision", s_id |-> s, command |-> c, to |-> to]

\* State::narrowcast
Narrowcast(ids, m) == {[m EXCEPT !.to = id] : id \in ids}

\* State::send by a task of server i, for each message of ms: a message for
\* a server that has no entry in the peers map is discarded.
Sent(i, ms) == {m \in ms : m.to = i \/ m.to \in peers[i]}

\* No connection has been accepted.
NoConn == [absent |-> TRUE]

\* State::new: the hub of server 0; no peer and no Commander is registered,
\* the channels of the Acceptor, the Scout and the Replica are empty.
\* links[n] is the live Peer task number n: the server it is connected to
\* and its rx; peer_txs[j] is the number of the Peer task whose tx is
\* registered for j; `next` numbers the Peer tasks; `dialled` are the
\* servers Config::run has dialled; `last` is the last call.  clients[n] is
\* the live Client task number n: the id of its client and its rx;
\* client_txs[c] is the number of the Client task whose tx is registered for
\* client c, `newest[c]` the number of the one that registered last;
\* `cnext` numbers the Client tasks.
NewHub ==
    [id |-> 0, peer_txs |-> EmptyMap, links |-> EmptyMap, next |-> 1,
     commander_txs |-> EmptyMap, scout |-> <<>>, acceptor |-> <<>>,
     replica |-> <<>>, dialled |-> {}, client_txs |-> EmptyMap,
     clients |-> EmptyMap, newest |-> EmptyMap, cnext |-> 1, conn |-> NoConn,
     scout_open |-> TRUE, last |-> <<"new">>]

PingMsg(id) == [type |-> "Ping", id |-> id]

\* State::connect_peer
ConnectPeer(h, id, n) == [h EXCEPT !.peer_txs = MapInsert(@, id, n)]

\* State::disconnect_peer
DisconnectPeer(h, id) == [h EXCEPT !.peer_txs = MapRemove(@, id)]

\* State::connect_commander
ConnectCommander(h, cid) == [h EXCEPT !.commander_txs = MapInsert(@, cid, <<>>)]

\* State::disconnect_commander
DisconnectCommander(h, cid) == [h EXCEPT !.commander_txs = MapRemove(@, cid)]

\* State::replace_scout: the tx of the channel of a new, live Scout
HubReplaceScout(h) == [h EXCEPT !.scout = <<>>, !.scout_open = TRUE]

\* A send that opens a channel for an id that has none.
SendCommanderOpens(h, cid, m) ==
    IF cid \in DOMAIN h.commander_txs
    THEN [h EXCEPT !.commander_txs = [@ EXCEPT ![cid] = Append(@, m)]]
    ELSE [h EXCEPT !.commander_txs = MapInsert(@, cid, <<m>>)]

\* State::send_commander
SendCommander(h, cid, m) ==
    IF cid \in DOMAIN h.commander_txs
    THEN [h EXCEPT !.commander_txs = [@ EXCEPT ![cid] = Append(@, m)]]
    ELSE h

\* State::send_replica
SendReplica(h, m) == [h EXCEPT !.replica = Append(@, m)]

\* State::send_scout: unbounded_send fails when the Scout has dropped its rx,
\* and the error is ignored.
SendScout(h, m) == IF h.scout_open THEN [h EXCEPT !.scout = Append(@, m)] ELSE h

\* State::send_acceptor
SendAcceptor(h, m) == [h EXCEPT !.acceptor = Append(@, m)]

\* State::connect_client
ConnectClient(h, id, n) == [h EXCEPT !.client_txs = MapInsert(@, id, n)]

\* State::disconnect_client
DisconnectClient(h, id) == [h EXCEPT !.client_txs = MapRemove(@, id)]

\* State::send_client: the response goes to the rx of the registered Client
\* task, if there is one and it is alive.
SendClient(h, id, r) ==
    IF id \in DOMAIN h.client_txs /\ h.client_txs[id] \in DOMAIN h.clients
    THEN [h EXCEPT !.clients =
             [@ EXCEPT ![h.client_txs[id]] = [@ EXCEPT !.rx = Append(@, r)]]]
    ELSE h

\* unbounded_send on the tx of Peer task n; the error of a closed channel
\* is ignored.
SendLink(h, n, m) ==
    IF n \in DOMAIN h.links
    THEN [h EXCEPT !.links = [@ EXCEPT ![n] = [@ EXCEPT !.rx = Append(@, m)]]]
    ELSE h

\* State::forward
Forward(h, m) ==
    CASE m.type = "P1A" -> SendAcceptor(h, m)
      [] m.type = "P1B" -> SendScout(h, m)
      [] m.type = "P2A" -> SendAcceptor(h, m)
      [] m.type = "P2B" -> SendCommander(h, <<m.c_b, m.c_s>>, m)
      [] m.type = "Decision" -> SendReplica(h, m)
      [] m.type = "Ping" -> h

\* A send that looks every id up in the peers map.
SendViaPeers(h, id, m) ==
    IF id \in DOMAIN h.peer_txs THEN SendLink(h, h.peer_txs[id], m) ELSE h

\* State::send
Send(h, id, m) ==
    IF id = h.id THEN Forward(h, m)
    ELSE IF id \in DOMAIN h.peer_txs THEN SendLink(h, h.peer_txs[id], m)
    ELSE h

\* State::broadcast: every registered tx in turn, then forward
RECURSIVE BroadcastLoop(_, _, _)
BroadcastLoop(h, ids, m) ==
    IF ids = {} THEN h
    ELSE LET id == CHOOSE x \in ids : TRUE
         IN BroadcastLoop(SendLink(h, h.peer_txs[id], m), ids \ {id}, m)

HubBroadcast(h, m) == Forward(BroadcastLoop(h, DOMAIN h.peer_txs, m), m)

\* Peer::respond_incoming
RespondIncoming(h, m) ==
    CASE m.type = "P1A" -> SendAcceptor(h, m)
      [] m.type = "P2A" -> SendAcceptor(h, m)
      [] OTHER -> Forward(h, m)

(***************************************************************************)
(* storage.rs                                                               *)
(***************************************************************************)
\* Storage::load followed by unwrap_or(default)
LoadOr(disk, default) == IF disk = NoRecord THEN default ELSE disk

\* Storage::new: the file as it is found (empty when created), opened with
\* the cursor at its start.  `saved` is the record of the last completed
\* save, `loaded` what the last load returned, `reloaded` whether a load
\* was made since the last save, `longest` the greatest length the file
\* ever had.
NewStore == [file |-> <<>>, cursor |-> 0, saved |-> NoRecord, loaded |-> NoRecord,
             reloaded |-> FALSE, longest |-> 0]

\* The sequences that list the elements of S once each (a HashMap is
\* iterated in an order of its own).
Orders(S) == {o \in [1 .. Cardinality(S) -> S] : \A x \in S : \E k \in DOMAIN o : o[k] = x}

\* bincode of one map entry: the key, then the PValue field by field
EncodeEntry(s, pv) ==
    <<s, pv.s_id, pv.b_id.b_id, pv.b_id.l_id,
      pv.command.client_id, pv.command.local_id, pv.command.data>>

EntryLen == 7

RECURSIVE EncodeEntries(_, _)
EncodeEntries(accepted, o) ==
    IF o = <<>> THEN <<>>
    ELSE EncodeEntry(Head(o), accepted[Head(o)]) \o EncodeEntries(accepted, Tail(o))

\* bincode::serialize_into of an Acceptor's Stable: the ballot, the length of
\* the map, the entries in the order o
Encode(st, o) ==
    <<st.ballot.b_id, st.ballot.l_id, Len(o)>> \o EncodeEntries(st.accepted, o)

DecodeEntry(w, k) ==
    PValue(w[k + 1], Ballot(w[k + 2], w[k + 3]), Cmd(w[k + 4], w[k + 5], w[k + 6]))

RECURSIVE DecodeEntries(_, _, _)
DecodeEntries(w, k, n) ==
    IF n = 0 THEN EmptyMap
    ELSE MapInsert(DecodeEntries(w, k, n - 1), w[k + (n - 1) * EntryLen],
                   DecodeEntry(w, k + (n - 1) * EntryLen))

\* bincode::deserialize_from(..).ok(): None when the words run out before the
\* record is complete; words after the record are not read.
Decode(w) ==
    IF Len(w) < 3 \/ Len(w) < 3 + w[3] * EntryLen THEN NoRecord
    ELSE [ballot |-> Ballot(w[1], w[2]), accepted |-> DecodeEntries(w, 4, w[3])]

\* A save that leaves the cursor where the last read or write left it.
SaveSeekNone(cursor) == cursor

\* Storage::save, line 48: seek(SeekFrom::Start(0))
SaveSeek(cursor) == 0

\* write_all at the cursor: a gap between the end of the file and the
\* cursor reads as zeros
WriteAt(file, cursor, w) ==
    [k \in 1 .. (cursor + Len(w)) |->
        IF k > cursor THEN w[k - cursor] ELSE IF k <= Len(file) THEN file[k] ELSE 0]

\* Storage::save: set_len(0), seek, serialize_into
Save(st, r, o) ==
    LET at == SaveSeek(st.cursor)
        f  == WriteAt(<<>>, at, Encode(r, o))
    IN [st EXCEPT !.file = f, !.cursor = at + Len(Encode(r, o)), !.saved = r,
                  !.reloaded = FALSE,
                  !.longest = IF Len(f) > @ THEN Len(f) ELSE @]

\* The process ends and starts again: Storage::new opens the file anew,
\* and the constructor of the task calls load.
Reload(st) ==
    [st EXCEPT !.loaded = Decode(st.file), !.reloaded = TRUE,
               !.cursor = IF Decode(st.file) = NoRecord THEN Len(st.file)
                          ELSE 3 + st.file[3] * EntryLen]

(***************************************************************************)
(* thread/acceptor.rs                                                       *)
(***************************************************************************)
\* Stable::default(): Ballot::default() and an empty map.
AcceptorDefault == [ballot |-> Ballot(0, 0), accepted |-> EmptyMap]

\* A send_p1a that takes the incoming ballot as it comes, without the max.
P1ABallotNoMax(cur, inc) == inc

\* send_p1a, line 91
P1ABallot(cur, inc) == BallotMax(inc, cur)

\* A filter that lets the pvalue of the hinted slot itself through.
P1BPValuesFromHint(accepted, decided) ==
    {accepted[s] : s \in {x \in DOMAIN accepted :
                            decided = -1 \/ accepted[x].s_id >= decided}}

\* send_p1a, lines 93-96: the pvalues a P1B carries
P1BPValues(accepted, decided) ==
    {accepted[s] : s \in {x \in DOMAIN accepted :
                            decided = -1 \/ accepted[x].s_id > decided}}

\* A send_p2a that accepts whatever the ballot.
P2AAcceptsAlways(st, pv) == TRUE

\* send_p2a, line 108
P2AAccepts(st, pv) == BallotLe(st.ballot, pv.b_id)

\* A send_p2a that stores the pvalue and leaves the ballot as it is.
P2AStableKeepsBallot(st, pv) ==
    IF P2AAccepts(st, pv)
    THEN [st EXCEPT !.accepted = MapInsert(@, pv.s_id, pv)]
    ELSE st

\* send_p2a, lines 108-112: the record after the step
P2AStable(st, pv) ==
    IF P2AAccepts(st, pv)
    THEN [ballot |-> pv.b_id, accepted |-> MapInsert(st.accepted, pv.s_id, pv)]
    ELSE st

\* Acceptor::send_p1a
HandleP1A(a, m) ==
    /\ up[a]
    /\ LET st == [aStable[a] EXCEPT !.ballot = P1ABallot(@, m.b_id)]
       IN /\ aStable' = [aStable EXCEPT ![a] = st]
          /\ aDisk' = [aDisk EXCEPT ![a] = st]
          /\ msgs' = msgs \cup Sent(a,
                {P1BMsg(a, st.ballot, P1BPValues(st.accepted, m.decided), m.b_id.l_id)})
          /\ hist' = [hist EXCEPT !.lastReply = [@ EXCEPT ![a] = st.ballot]]
    /\ UNCHANGED <<count, up, lStable, lDisk, active, lInbox, scouts, commanders,
                   rStable, rDisk, executed>>

\* Acceptor::poll, a P1A taken from the channel
AcceptorP1A(a, m) ==
    /\ m \in msgs /\ m.type = "P1A" /\ m.to = a
    /\ HandleP1A(a, m)

\* Acceptor::send_p2a
HandleP2A(a, m) ==
    /\ up[a]
    /\ LET st == P2AStable(aStable[a], m.pvalue)
           ok == P2AAccepts(aStable[a], m.pvalue)
       IN /\ aStable' = [aStable EXCEPT ![a] = st]
          /\ aDisk' = [aDisk EXCEPT ![a] = IF ok THEN st ELSE @]
          /\ msgs' = msgs \cup Sent(a,
                {P2BMsg(m.pvalue.b_id, m.pvalue.s_id, a, st.ballot, m.pvalue.b_id.l_id)})
          /\ hist' = [hist EXCEPT !.accepted =
                         IF ok THEN @ \cup {[a_id |-> a, pvalue |-> m.pvalue]} ELSE @,
                                  !.lastReply = [@ EXCEPT ![a] = st.ballot]]
    /\ UNCHANGED <<count, up, lStable, lDisk, active, lInbox, scouts, commanders,
                   rStable, rDisk, executed>>

\* Acceptor::poll, a P2A taken from the channel
AcceptorP2A(a, m) ==
    /\ m \in msgs /\ m.type = "P2A" /\ m.to = a
    /\ HandleP2A(a, m)

(***************************************************************************)
(* thread/scout.rs                                                          *)
(*                                                                          *)
(* A Scout is a record: its ballot, the decided hint it sends, the          *)
(* acceptors it still waits for, the pvalues collected so far.  The hub     *)
(* holds the sender of the Scout created last: `frozen` says that a newer   *)
(* Scout has replaced it there, and `queued` then holds the P1B messages    *)
(* that may already sit in its channel.                                     *)
(***************************************************************************)
\* (count - 1) / 2
Minority == (count - 1) \div 2

\* Scout::new
NewScout(b, d) ==
    [ballot |-> b, decided |-> d, waiting |-> Srv, pvalues |-> {},
     frozen |-> FALSE, queued |-> {}]

\* A replace_scout that leaves the Scouts created earlier registered.
ReplaceScoutKeep(i, ss) == ss

\* State::replace_scout: the Scouts created earlier no longer receive.
ReplaceScout(i, ss) ==
    {IF sc.frozen THEN sc
     ELSE [sc EXCEPT !.frozen = TRUE,
                     !.queued = {m \in msgs : m.type = "P1B" /\ m.to = i}]
       : sc \in ss}

\* leader::In
ProposeMsg(s, c) == [type |-> "Propose", s_id |-> s, command |-> c]

\* A Preempt that carries the ballot number after the one it was given.
PreemptMsgNext(b) == [type |-> "Preempt", ballot |-> Ballot(b.b_id + 1, b.l_id)]

PreemptMsg(b) == [type |-> "Preempt", ballot |-> b]

\* `scout` is not in the code: it records the ballot of the sending Scout.
AdoptMsg(pvs, b) == [type |-> "Adopt", pvalues |-> pvs, scout |-> b]

DecideMsg(s) == [type |-> "Decide", s_id |-> s]

\* A retransmission that goes to every acceptor again.
ScoutSendP1AAll(sc) == Narrowcast(Srv, P1AMsg(sc.ballot, sc.decided, 0))

\* Scout::send_p1a: State::narrowcast to the acceptors still waited for
ScoutSendP1A(sc) == Narrowcast(sc.waiting, P1AMsg(sc.ballot, sc.decided, 0))

\* Scout::poll on a tick of the timer
ScoutTick(i, sc) ==
    /\ up[i]
    /\ sc \in scouts[i]
    /\ msgs' = msgs \cup Sent(i, ScoutSendP1A(sc))
    /\ UNCHANGED <<count, up, aStable, aDisk, lStable, lDisk, active, lInbox, scouts,
                   commanders, rStable, rDisk, executed, hist>>

\* A quorum test that is met when half of the acceptors have answered.
ScoutQuorumHalf(waiting) == Cardinality(waiting) <= count \div 2

\* Scout::poll, line 138
ScoutQuorum(waiting) == Cardinality(waiting) <= Minority

\* A test that takes every other ballot for a greater one.
ScoutPreemptedAny(sc, m) == m.b_id # sc.ballot

\* Scout::poll, line 146
ScoutPreempted(sc, m) == BallotLt(sc.ballot, m.b_id)

\* The P1B messages a Scout of server i can take from its channel.
ScoutCanTake(i, sc, m) ==
    IF sc.frozen THEN m \in sc.queued
    ELSE m \in msgs /\ m.type = "P1B" /\ m.to = i

\* Scout::poll, one P1B
ScoutP1B(i, sc, m) ==
    /\ up[i]
    /\ sc \in scouts[i]
    /\ ScoutCanTake(i, sc, m)
    /\ LET rest == [sc EXCEPT !.queued = @ \ {m}]
           got  == [rest EXCEPT !.pvalues = @ \cup m.pvalues,
                                !.waiting = @ \ {m.a_id}]
       IN IF m.b_id = sc.ballot
          THEN IF ScoutQuorum(got.waiting)
               THEN /\ lInbox' = [lInbox EXCEPT ![i] = Append(@, AdoptMsg(got.pvalues, sc.ballot))]
                    /\ scouts' = [scouts EXCEPT ![i] = @ \ {sc}]
               ELSE /\ scouts' = [scouts EXCEPT ![i] = (@ \ {sc}) \cup {got}]
                    /\ UNCHANGED lInbox
          ELSE IF ScoutPreempted(sc, m)
               THEN /\ lInbox' = [lInbox EXCEPT ![i] = Append(@, PreemptMsg(m.b_id))]
                    /\ scouts' = [scouts EXCEPT ![i] = @ \ {sc}]
               ELSE /\ scouts' = [scouts EXCEPT ![i] = (@ \ {sc}) \cup {rest}]
                    /\ UNCHANGED lInbox
    /\ UNCHANGED <<count, up, aStable, aDisk, lStable, lDisk, active, commanders,
                   rStable, rDisk, executed, msgs, hist>>

(***************************************************************************)
(* thread/commander.rs                                                      *)
(*                                                                          *)
(* A Commander is a record: its pvalue (b_id, s_id, command) and the        *)
(* acceptors it still waits for.  `frozen` says that the hub no longer      *)
(* holds its sender under its CommanderID (another Commander registered     *)
(* under the same id, or one with the same id was dropped); `queued` then   *)
(* holds the P2B messages that may already sit in its channel.              *)
(***************************************************************************)
\* A Commander that drops the payload of the command it was given.
NewCommanderNoPayload(pv) ==
    [b_id |-> pv.b_id, s_id |-> pv.s_id,
     command |-> Cmd(pv.command.client_id, pv.command.local_id, 0), waiting |-> Srv,
     frozen |-> FALSE, queued |-> {}]

\* Commander::new
NewCommander(pv) ==
    [b_id |-> pv.b_id, s_id |-> pv.s_id, command |-> pv.command, waiting |-> Srv,
     frozen |-> FALSE, queued |-> {}]

SameId(cm, b, s) == cm.b_id = b /\ cm.s_id = s

\* The P2B messages sent to server i for CommanderID (b, s).
P2BFor(i, b, s) ==
    {m \in msgs : m.type = "P2B" /\ m.to = i /\ m.c_b = b /\ m.c_s = s}

\* connect_commander / disconnect_commander for the ids of `ids` (pairs
\* <<b, s>>): the Commanders registered under them no longer receive.
Unregister(i, cs, ids) ==
    {IF (~cm.frozen) /\ <<cm.b_id, cm.s_id>> \in ids
     THEN [cm EXCEPT !.frozen = TRUE, !.queued = P2BFor(i, cm.b_id, cm.s_id)]
     ELSE cm
       : cm \in cs}

\* A quorum test that is met when half of the acceptors have answered.
CommanderQuorumHalf(waiting) == Cardinality(waiting) <= count \div 2

\* Commander::poll, line 146
CommanderPreempted(cm, m) == BallotLt(cm.b_id, m.b_id)

\* Commander::poll, line 139
CommanderQuorum(waiting) == Cardinality(waiting) <= Minority

CommanderCanTake(i, cm, m) ==
    IF cm.frozen THEN m \in cm.queued
    ELSE m \in P2BFor(i, cm.b_id, cm.s_id)

\* Commander::send_decide: State::broadcast
Broadcast(s, c) == {DecisionMsg(s, c, j) : j \in Srv}

\* Commander::poll, one P2B
CommanderP2B(i, cm, m) ==
    /\ up[i]
    /\ cm \in commanders[i]
    /\ CommanderCanTake(i, cm, m)
    /\ LET rest   == [cm EXCEPT !.queued = @ \ {m}]
           got    == [rest EXCEPT !.waiting = @ \ {m.a_id}]
           others == commanders[i] \ {cm}
           exit   == Unregister(i, others, {<<cm.b_id, cm.s_id>>})
       IN IF m.b_id = cm.b_id
          THEN IF CommanderQuorum(got.waiting)
               THEN /\ msgs' = msgs \cup Sent(i, Broadcast(cm.s_id, cm.command))
                    /\ commanders' = [commanders EXCEPT ![i] = exit]
                    /\ UNCHANGED lInbox
               ELSE /\ commanders' = [commanders EXCEPT ![i] = others \cup {got}]
                    /\ UNCHANGED <<msgs, lInbox>>
          ELSE IF CommanderPreempted(cm, m)
               THEN /\ lInbox' = [lInbox EXCEPT ![i] = Append(@, PreemptMsg(m.b_id))]
                    /\ commanders' = [commanders EXCEPT ![i] = exit]
                    /\ UNCHANGED msgs
               ELSE /\ commanders' = [commanders EXCEPT ![i] = others \cup {rest}]
                    /\ UNCHANGED <<msgs, lInbox>>
    /\ UNCHANGED <<count, up, aStable, aDisk, lStable, lDisk, active, scouts,
                   rStable, rDisk, executed, hist>>

\* Commander::send_p2a: State::narrowcast to the acceptors still waited for
CommanderSendP2A(cm) ==
    Narrowcast(cm.waiting, P2AMsg(PValue(cm.s_id, cm.b_id, cm.command), 0))

\* Commander::poll on a tick of the timer
CommanderTick(i, cm) ==
    /\ up[i]
    /\ cm \in commanders[i]
    /\ msgs' = msgs \cup Sent(i, CommanderSendP2A(cm))
    /\ UNCHANGED <<count, up, aStable, aDisk, lStable, lDisk, active, lInbox, scouts,
                   commanders, rStable, rDisk, executed, hist>>

(***************************************************************************)
(* thread/leader.rs                                                         *)
(***************************************************************************)
\* Leader::new, lines 92-96: the record of a Leader that finds none on disk.
\* decided: -1 stands for None.
LeaderDefault(i) == [ballot |-> Ballot(1, i), proposals |-> EmptyMap, decided |-> -1]

PmaxSlots(pvs) == {pv.s_id : pv \in pvs}

\* Leader::pmax, lines 190-199: the pvalues of slot s that the loop can end
\* with, those of the highest ballot (the first of them in iteration order).
PmaxBest(pvs, s) ==
    {pv \in pvs : pv.s_id = s /\ \A q \in pvs : q.s_id = s => BallotLe(q.b_id, pv.b_id)}

\* Leader::pmax, lines 190-198: one turn of the loop
PmaxStep(pm, pv) ==
    IF pv.s_id \in DOMAIN pm
    THEN IF BallotLt(pm[pv.s_id].b_id, pv.b_id)
         THEN [pm EXCEPT ![pv.s_id] = [b_id |-> pv.b_id, command |-> pv.command]]
         ELSE pm
    ELSE MapInsert(pm, pv.s_id, [b_id |-> pv.b_id, command |-> pv.command])

RECURSIVE PmaxLoop(_, _)
PmaxLoop(pm, o) == IF o = <<>> THEN pm ELSE PmaxLoop(PmaxStep(pm, Head(o)), Tail(o))

\* Leader::pmax on the pvalues in the order o
Pmax(o) == [s \in DOMAIN PmaxLoop(EmptyMap, o) |-> PmaxLoop(EmptyMap, o)[s].command]

\* Leader::pmax: the maps the function can return, one per order in which
\* the pvalues of the Scout's set are handed to it.
PmaxResults(pvs) == {Pmax(o) : o \in Orders(pvs)}

\* A merge in which the entries that the Leader had win.
MergeOldWins(pm, old) ==
    [s \in (DOMAIN pm) \cup (DOMAIN old) |-> IF s \in DOMAIN old THEN old[s] ELSE pm[s]]

\* respond_adopt, lines 144-153: pmax wins, other entries are kept.
Merge(pm, old) ==
    [s \in (DOMAIN pm) \cup (DOMAIN old) |-> IF s \in DOMAIN pm THEN pm[s] ELSE old[s]]

\* respond_adopt, lines 157-161: the slots that get a Commander
AdoptSlots(st) == {s \in DOMAIN st.proposals : ~(st.decided # -1 /\ s <= st.decided)}

\* Leader::spawn_commander for each pvalue of pvs (distinct slots):
\* Commander::new registers it and sends P2A to every acceptor.
SpawnCommanders(i, cs, pvs) ==
    Unregister(i, cs, {<<pv.b_id, pv.s_id>> : pv \in pvs})
        \cup {NewCommander(pv) : pv \in pvs}

SendP2A(pvs) == {P2AMsg(pv, a) : pv \in pvs, a \in Srv}

\* What is recorded of a spawned Commander: its pvalue, and the Scout (its
\* ballot and the pvalues of its Adopt) that last made the Leader active.
Spawned(i, pvs, ad) ==
    {[by |-> i, pvalue |-> pv, scout |-> ad.scout, pvalues |-> ad.pvalues] : pv \in pvs}

\* Leader::spawn_scout
SpawnScout(i, ss, st) == ReplaceScout(i, ss) \cup {NewScout(st.ballot, st.decided)}

\* A test that lets a proposal for the decided slot itself through.
ProposeIgnoredBelow(st, m) ==
    \/ m.s_id \in DOMAIN st.proposals
    \/ (st.decided # -1 /\ st.decided > m.s_id)

\* respond_propose, lines 116-117
ProposeIgnored(st, m) ==
    \/ m.s_id \in DOMAIN st.proposals
    \/ (st.decided # -1 /\ st.decided >= m.s_id)

LeaderPropose(i, m) ==
    /\ up[i]
    /\ lInbox[i] # <<>> /\ m = Head(lInbox[i]) /\ m.type = "Propose"
    /\ lInbox' = [lInbox EXCEPT ![i] = Tail(@)]
    /\ IF ProposeIgnored(lStable[i], m)
       THEN UNCHANGED <<lStable, lDisk, commanders, msgs, hist>>
       ELSE LET st  == [lStable[i] EXCEPT !.proposals = MapInsert(@, m.s_id, m.command)]
                pvs == IF active[i] THEN {PValue(m.s_id, st.ballot, m.command)} ELSE {}
            IN /\ lStable' = [lStable EXCEPT ![i] = st]
               /\ lDisk' = [lDisk EXCEPT ![i] = st]
               /\ commanders' = [commanders EXCEPT ![i] = SpawnCommanders(i, @, pvs)]
               /\ msgs' = msgs \cup Sent(i, SendP2A(pvs))
               /\ hist' = [hist EXCEPT !.spawned = @ \cup Spawned(i, pvs, hist.adopt[i])]
    /\ UNCHANGED <<count, up, aStable, aDisk, active, scouts, rStable, rDisk, executed>>

\* respond_preempt, line 129
PreemptIgnored(st, m) == BallotLe(m.ballot, st.ballot)

\* A new ballot that keeps the number of the ballot of the Preempt.
PreemptBallotSame(i, m) == Ballot(m.ballot.b_id, i)

\* respond_preempt, lines 132-135
PreemptBallot(i, m) == Ballot(m.ballot.b_id + 1, i)

LeaderPreempt(i, m) ==
    /\ up[i]
    /\ lInbox[i] # <<>> /\ m = Head(lInbox[i]) /\ m.type = "Preempt"
    /\ lInbox' = [lInbox EXCEPT ![i] = Tail(@)]
    /\ IF PreemptIgnored(lStable[i], m)
       THEN UNCHANGED <<lStable, lDisk, active, scouts, hist>>
       ELSE LET st == [lStable[i] EXCEPT !.ballot = PreemptBallot(i, m)]
            IN /\ st.ballot.b_id <= MaxSeq
               /\ active' = [active EXCEPT ![i] = FALSE]
               /\ lStable' = [lStable EXCEPT ![i] = st]
               /\ lDisk' = [lDisk EXCEPT ![i] = st]
               /\ scouts' = [scouts EXCEPT ![i] = SpawnScout(i, @, st)]
               /\ hist' = [hist EXCEPT !.issued = [@ EXCEPT ![i] = Append(@, st.ballot)]]
    /\ UNCHANGED <<count, up, aStable, aDisk, commanders, rStable, rDisk, executed,
                   msgs>>

LeaderAdopt(i, m) ==
    /\ up[i]
    /\ lInbox[i] # <<>> /\ m = Head(lInbox[i]) /\ m.type = "Adopt"
    /\ lInbox' = [lInbox EXCEPT ![i] = Tail(@)]
    /\ \E pm \in PmaxResults(m.pvalues) :
        LET st  == [lStable[i] EXCEPT !.proposals = Merge(pm, @)]
            pvs == {PValue(s, st.ballot, st.proposals[s]) : s \in AdoptSlots(st)}
            ad  == [scout |-> m.scout, pvalues |-> m.pvalues]
        IN /\ lStable' = [lStable EXCEPT ![i] = st]
           /\ lDisk' = [lDisk EXCEPT ![i] = st]
           /\ commanders' = [commanders EXCEPT ![i] = SpawnCommanders(i, @, pvs)]
           /\ msgs' = msgs \cup Sent(i, SendP2A(pvs))
           /\ hist' = [hist EXCEPT !.spawned = @ \cup Spawned(i, pvs, ad),
                                   !.adopt = [@ EXCEPT ![i] = ad]]
    /\ active' = [active EXCEPT ![i] = TRUE]
    /\ UNCHANGED <<count, up, aStable, aDisk, scouts, rStable, rDisk, executed>>

\* decided follows the last Decide.
DecideLast(decided, s) == s

\* respond_decide, lines 176-180
DecideMax(decided, s) == IF decided = -1 \/ s >= decided THEN s ELSE decided

LeaderDecide(i, m) ==
    /\ up[i]
    /\ lInbox[i] # <<>> /\ m = Head(lInbox[i]) /\ m.type = "Decide"
    /\ lInbox' = [lInbox EXCEPT ![i] = Tail(@)]
    /\ LET st == [lStable[i] EXCEPT !.decided = DecideMax(@, m.s_id),
                                    !.proposals = MapRemove(@, m.s_id)]
       IN /\ lStable' = [lStable EXCEPT ![i] = st]
          /\ lDisk' = [lDisk EXCEPT ![i] = st]
    /\ UNCHANGED <<count, up, aStable, aDisk, active, scouts, commanders, rStable,
                   rDisk, executed, msgs, hist>>

(***************************************************************************)
(* thread/replica.rs                                                        *)
(***************************************************************************)
\* Stable::default()
ReplicaDefault ==
    [proposal_slot |-> 0, decision_slot |-> 0, proposals |-> EmptyMap,
     decisions |-> EmptyMap]

\* One call of State::execute
Exec(s, c) == [slot |-> s, command |-> c]

\* propose, lines 115-117
AlreadyDecided(st, c) == \E s \in DOMAIN st.decisions : CmdEq(st.decisions[s], c)

RECURSIVE NextFreeOfProposals(_, _)
\* A search that passes the slots with a proposal only.
NextFreeOfProposals(st, s) ==
    IF s \in DOMAIN st.proposals THEN NextFreeOfProposals(st, s + 1) ELSE s

RECURSIVE NextFree(_, _)
\* propose, lines 119-122
NextFree(st, s) ==
    IF s \in DOMAIN st.proposals \/ s \in DOMAIN st.decisions
    THEN NextFree(st, s + 1)
    ELSE s

\* Replica::propose: the record after the call and the Propose sent.
Propose(st, c) ==
    IF AlreadyDecided(st, c)
    THEN [st |-> st, out |-> <<>>]
    ELSE LET ps == NextFree(st, st.proposal_slot)
         IN [st  |-> [st EXCEPT !.proposal_slot = ps,
                                !.proposals = MapInsert(@, ps, c)],
             out |-> <<ProposeMsg(ps, c)>>]

\* perform, lines 140-146
PerformSkips(st, c) ==
    \E s \in DOMAIN st.decisions : CmdEq(st.decisions[s], c) /\ s < st.decision_slot

RECURSIVE DecisionLoop(_, _, _)
\* respond_decision, lines 103-110, with propose and perform
DecisionLoop(st, ex, out) ==
    IF st.decision_slot \notin DOMAIN st.decisions
    THEN [st |-> st, ex |-> ex, out |-> out]
    ELSE LET ds == st.decision_slot
             c1 == st.decisions[ds]
             p  == IF ds \in DOMAIN st.proposals /\ ~CmdEq(c1, st.proposals[ds])
                   THEN Propose(st, st.proposals[ds])
                   ELSE [st |-> st, out |-> <<>>]
             ex2 == IF PerformSkips(p.st, c1) THEN ex ELSE Append(ex, Exec(ds, c1))
         IN DecisionLoop([p.st EXCEPT !.decision_slot = ds + 1], ex2, out \o p.out)

\* The Leader of server r has completed a phase 1 round and the process of
\* server r runs on without a further crash.
Settled(r) == up[r] /\ active[r] /\ hist.crashes = MaxCrashes

\* Replica::respond_request
HandleRequest(r, c) ==
    /\ up[r]
    /\ LET p == Propose(rStable[r], c)
       IN /\ rStable' = [rStable EXCEPT ![r] = p.st]
          /\ rDisk' = [rDisk EXCEPT ![r] = IF p.out = <<>> THEN @ ELSE p.st]
          /\ lInbox' = [lInbox EXCEPT ![r] = @ \o p.out]
    /\ hist' = [hist EXCEPT !.requested = @ \cup {c}, !.inputs = @ + 1,
                            !.late = IF Settled(r) THEN @ \cup {c} ELSE @]
    /\ UNCHANGED <<count, up, aStable, aDisk, lStable, lDisk, active, scouts,
                   commanders, executed, msgs>>

\* A respond_decision that files the decision under decision_slot.
DecisionInsertAtNext(st, m) ==
    [st EXCEPT !.decisions = MapInsert(@, st.decision_slot, m.command)]

\* respond_decision, line 101
DecisionInsert(st, m) == [st EXCEPT !.decisions = MapInsert(@, m.s_id, m.command)]

\* Replica::respond_decision
HandleDecision(r, m) ==
    /\ up[r]
    /\ LET st == DecisionInsert(rStable[r], m)
           l  == DecisionLoop(st, executed[r], <<>>)
       IN /\ rStable' = [rStable EXCEPT ![r] = l.st]
          /\ rDisk' = [rDisk EXCEPT ![r] = l.st]
          /\ executed' = [executed EXCEPT ![r] = l.ex]
          /\ lInbox' = [lInbox EXCEPT ![r] = @ \o l.out]
    /\ UNCHANGED <<count, up, aStable, aDisk, lStable, lDisk, active, scouts,
                   commanders, msgs>>

ReplicaDecision(r, m) ==
    /\ m \in msgs /\ m.type = "Decision" /\ m.to = r
    /\ HandleDecision(r, m)
    /\ UNCHANGED hist

\* Replica::new, lines 80-82: the calls of execute made on the fresh state
Replay(st) == [k \in 1 .. st.decision_slot |-> Exec(k - 1, st.decisions[k - 1])]

(***************************************************************************)
(* config.rs: Config::run builds the hub, the Acceptor, the Replica and the *)
(* Leader of a server; a crash of the process loses all of them, the files  *)
(* stay.                                                                    *)
(***************************************************************************)
NoAdopt == [scout |-> Ballot(0, 0), pvalues |-> {}]

\* The process of server i ends: its tasks, their channels and the state
\* machine are gone, the files stay.
CrashTasks(i) ==
    /\ up[i]
    /\ hist.crashes < MaxCrashes
    /\ up' = [up EXCEPT ![i] = FALSE]
    /\ lInbox' = [lInbox EXCEPT ![i] = <<>>]
    /\ scouts' = [scouts EXCEPT ![i] = {}]
    /\ commanders' = [commanders EXCEPT ![i] = {}]
    /\ active' = [active EXCEPT ![i] = FALSE]
    /\ executed' = [executed EXCEPT ![i] = <<>>]
    /\ hist' = [hist EXCEPT !.crashes = @ + 1,
                            !.preCrash = [@ EXCEPT ![i] = executed[i]],
                            !.adopt = [@ EXCEPT ![i] = NoAdopt]]
    /\ UNCHANGED <<count, aStable, lStable, lDisk, rStable, rDisk, msgs>>

Crash(i) == CrashTasks(i) /\ UNCHANGED aDisk

\* What load returns from a file that Storage::save had truncated and was
\* still writing the record st to when the process ended.
TornLoads(st) ==
    {Decode(SubSeq(Encode(st, o), 1, k)) :
        o \in Orders(DOMAIN st.accepted),
        k \in 0 .. (2 + EntryLen * Cardinality(DOMAIN st.accepted))}

\* The process ends while the Acceptor of server i is in Storage::save,
\* called by send_p1a or send_p2a with the record st; no reply was sent.
CrashInSave(i, st) ==
    /\ CrashTasks(i)
    /\ \E d \in TornLoads(st) : aDisk' = [aDisk EXCEPT ![i] = d]

\* Config::run, lines 85-105: Acceptor::new, Replica::new, Leader::new
Restart(i) ==
    /\ ~up[i]
    /\ up' = [up EXCEPT ![i] = TRUE]
    /\ aStable' = [aStable EXCEPT ![i] = LoadOr(aDisk[i], AcceptorDefault)]
    /\ LET st == LoadOr(rDisk[i], ReplicaDefault)
       IN /\ rStable' = [rStable EXCEPT ![i] = st]
          /\ executed' = [executed EXCEPT ![i] = Replay(st)]
    /\ LET st == LoadOr(lDisk[i], LeaderDefault(i))
       IN /\ lStable' = [lStable EXCEPT ![i] = st]
          /\ scouts' = [scouts EXCEPT ![i] = SpawnScout(i, {}, st)]
    /\ hist' = [hist EXCEPT !.replayed =
                   [@ EXCEPT ![i] = Replay(LoadOr(rDisk[i], ReplicaDefault))],
                            !.restarted = [@ EXCEPT ![i] = TRUE],
                            !.issued = [@ EXCEPT ![i] =
                                Append(@, LoadOr(lDisk[i], LeaderDefault(i)).ballot)]]
    /\ UNCHANGED <<count, aDisk, lDisk, rDisk, active, lInbox, commanders, msgs>>

\* The servers of a cluster of n, all just started for the first time.
InitCluster(n) ==
    /\ count = n
    /\ up = [i \in 0 .. (n - 1) |-> TRUE]
    /\ aStable = [i \in 0 .. (n - 1) |-> AcceptorDefault]
    /\ aDisk = [i \in 0 .. (n - 1) |-> NoRecord]
    /\ lStable = [i \in 0 .. (n - 1) |-> LeaderDefault(i)]
    /\ lDisk = [i \in 0 .. (n - 1) |-> NoRecord]
    /\ active = [i \in 0 .. (n - 1) |-> FALSE]
    /\ lInbox = [i \in 0 .. (n - 1) |-> <<>>]
    /\ scouts = [i \in 0 .. (n - 1) |->
                    {[ballot |-> Ballot(1, i), decided |-> -1, waiting |-> 0 .. (n - 1),
                      pvalues |-> {}, frozen |-> FALSE, queued |-> {}]}]
    /\ commanders = [i \in 0 .. (n - 1) |-> {}]
    /\ rStable = [i \in 0 .. (n - 1) |-> ReplicaDefault]
    /\ rDisk = [i \in 0 .. (n - 1) |-> NoRecord]
    /\ executed = [i \in 0 .. (n - 1) |-> <<>>]
    /\ msgs = {}
    /\ hist = [requested |-> {}, accepted |-> {}, spawned |-> {},
               adopt |-> [i \in 0 .. (n - 1) |-> NoAdopt],
               preCrash |-> [i \in 0 .. (n - 1) |-> <<>>],
               replayed |-> [i \in 0 .. (n - 1) |-> <<>>],
               restarted |-> [i \in 0 .. (n - 1) |-> FALSE],
               issued |-> [i \in 0 .. (n - 1) |-> <<Ballot(1, i)>>],
               lastReply |-> [i \in 0 .. (n - 1) |-> Ballot(0, 0)],
               inputs |-> 0, crashes |-> 0, late |-> {}]
    /\ sched = 0
    /\ store = NewStore
    /\ hub = NewHub
    /\ peers = [i \in 0 .. (n - 1) |-> (0 .. (n - 1)) \ {i}]

(***************************************************************************)
(* The environment and the steps of the tasks.                              *)
(***************************************************************************)
Commands == {Cmd(k, 1, d) : k \in 1 .. MaxKey, d \in 1 .. MaxData}

\* A client sends a command to the Replica of server r.
RequestAt(r) == \E c \in Commands : hist.inputs < MaxRequests /\ HandleRequest(r, c)

\* One step of a task of server i: it takes one message from its channel.
TaskAcceptorP1A(i) == \E m \in msgs : AcceptorP1A(i, m)

TaskAcceptorP2A(i) == \E m \in msgs : AcceptorP2A(i, m)

TaskScoutTick(i) == \E sc \in scouts[i] : ScoutTick(i, sc)

TaskScoutP1B(i) == \E sc \in scouts[i] : \E m \in msgs \cup sc.queued : ScoutP1B(i, sc, m)

TaskCommanderP2B(i) ==
    \E cm \in commanders[i] : \E m \in msgs \cup cm.queued : CommanderP2B(i, cm, m)

TaskLeaderPropose(i) == lInbox[i] # <<>> /\ LeaderPropose(i, Head(lInbox[i]))

TaskLeaderPreempt(i) == lInbox[i] # <<>> /\ LeaderPreempt(i, Head(lInbox[i]))

TaskLeaderAdopt(i) == lInbox[i] # <<>> /\ LeaderAdopt(i, Head(lInbox[i]))

TaskReplicaDecision(i) == \E m \in msgs : ReplicaDecision(i, m)

Request == \E r \in Srv : RequestAt(r)

StepAcceptorP1A == \E i \in Srv : TaskAcceptorP1A(i)

StepAcceptorP2A == \E i \in Srv : TaskAcceptorP2A(i)

StepScoutTick == \E i \in Srv : TaskScoutTick(i)

StepScoutP1B == \E i \in Srv : TaskScoutP1B(i)

StepCommanderP2B == \E i \in Srv : TaskCommanderP2B(i)

StepLeaderPropose == \E i \in Srv : TaskLeaderPropose(i)

StepLeaderPreempt == \E i \in Srv : TaskLeaderPreempt(i)

StepLeaderAdopt == \E i \in Srv : TaskLeaderAdopt(i)

StepReplicaDecision == \E i \in Srv : TaskReplicaDecision(i)

StepCrash == \E i \in Srv : Crash(i)

StepRestart == \E i \in Srv : Restart(i)

\* A single server with crash and restart.
Init == InitCluster(1)

Next ==
    \/ Request /\ UNCHANGED <<sched, store, hub, peers>>
    \/ StepAcceptorP1A /\ UNCHANGED <<sched, store, hub, peers>>
    \/ StepAcceptorP2A /\ UNCHANGED <<sched, store, hub, peers>>
    \/ StepScoutTick /\ UNCHANGED <<sched, store, hub, peers>>
    \/ StepScoutP1B /\ UNCHANGED <<sched, store, hub, peers>>
    \/ StepCommanderP2B /\ UNCHANGED <<sched, store, hub, peers>>
    \/ StepLeaderPropose /\ UNCHANGED <<sched, store, hub, peers>>
    \/ StepLeaderAdopt /\ UNCHANGED <<sched, store, hub, peers>>
    \/ StepReplicaDecision /\ UNCHANGED <<sched, store, hub, peers>>
    \/ StepCrash /\ UNCHANGED <<sched, store, hub, peers>>
    \/ StepRestart /\ UNCHANGED <<sched, store, hub, peers>>

Spec == Init /\ [][Next]_vars

\* Every task of a running process is polled again whenever a message or a
\* timer wakes it, and a stopped process is started again.
Fairness ==
    /\ WF_vars(StepAcceptorP1A /\ UNCHANGED <<sched, store, hub, peers>>)
    /\ WF_vars(StepAcceptorP2A /\ UNCHANGED <<sched, store, hub, peers>>)
    /\ WF_vars(StepScoutTick /\ UNCHANGED <<sched, store, hub, peers>>)
    /\ WF_vars(StepScoutP1B /\ UNCHANGED <<sched, store, hub, peers>>)
    /\ WF_vars(StepCommanderP2B /\ UNCHANGED <<sched, store, hub, peers>>)
    /\ WF_vars(StepLeaderPropose /\ UNCHANGED <<sched, store, hub, peers>>)
    /\ WF_vars(StepLeaderAdopt /\ UNCHANGED <<sched, store, hub, peers>>)
    /\ WF_vars(StepReplicaDecision /\ UNCHANGED <<sched, store, hub, peers>>)
    /\ WF_vars(StepRestart /\ UNCHANGED <<sched, store, hub, peers>>)

\* The single server under fair scheduling.
SpecLive == Spec /\ Fairness

(***************************************************************************)
(* The Acceptor of server 0 alone, fed any sequence of at most MaxInputs    *)
(* P1A and P2A messages, with a crash and a restart of the server anywhere  *)
(* in between.  sched counts the inputs.                                    *)
(***************************************************************************)
InBallots == {Ballot(b, l) : b \in 1 .. MaxBallot, l \in 0 .. 1}

InPValues == {PValue(s, b, c) : s \in 0 .. MaxSlot, b \in InBallots,
                                c \in {Cmd(k, 1, 1) : k \in 1 .. MaxKey}}

InputP1A ==
    \E b \in InBallots, d \in -1 .. MaxSlot :
        /\ sched < MaxInputs
        /\ HandleP1A(0, P1AMsg(b, d, 0))
        /\ sched' = sched + 1 /\ UNCHANGED <<store, hub, peers>>

InputP2A ==
    \E pv \in InPValues :
        /\ sched < MaxInputs
        /\ HandleP2A(0, P2AMsg(pv, 0))
        /\ sched' = sched + 1 /\ UNCHANGED <<store, hub, peers>>

InitAcceptor == InitCluster(1)

NextAcceptor ==
    \/ InputP1A
    \/ InputP2A
    \/ StepCrash /\ UNCHANGED <<sched, store, hub, peers>>
    \/ StepRestart /\ UNCHANGED <<sched, store, hub, peers>>

SpecAcceptor == InitAcceptor /\ [][NextAcceptor]_vars

\* The same Acceptor in a process that does not stop.
NextAcceptorUp == InputP1A \/ InputP2A

SpecAcceptorUp == InitAcceptor /\ [][NextAcceptorUp]_vars

(***************************************************************************)
(* The Replica of server 0 alone: clients send it Requests, and at most     *)
(* MaxDecisions Decision messages of any slot and command are sent to it,   *)
(* which it takes in any order and any number of times; the server may      *)
(* crash and restart.  sched counts the Decisions sent.                     *)
(***************************************************************************)
InputDecision ==
    \E s \in 0 .. MaxSlot, c \in Commands :
        /\ sched < MaxDecisions
        /\ msgs' = msgs \cup {DecisionMsg(s, c, 0)}
        /\ sched' = sched + 1 /\ UNCHANGED <<store, hub, peers>>
        /\ UNCHANGED <<count, up, aStable, aDisk, lStable, lDisk, active, lInbox, scouts,
                       commanders, rStable, rDisk, executed, hist>>

InitReplica == InitCluster(1)

NextReplica ==
    \/ Request /\ UNCHANGED <<sched, store, hub, peers>>
    \/ InputDecision
    \/ StepReplicaDecision /\ UNCHANGED <<sched, store, hub, peers>>
    \/ StepCrash /\ UNCHANGED <<sched, store, hub, peers>>
    \/ StepRestart /\ UNCHANGED <<sched, store, hub, peers>>

SpecReplica == InitReplica /\ [][NextReplica]_vars

(***************************************************************************)
(* The Replica of server 0 in a process that can end inside                 *)
(* respond_decision: after any of the saves that the call makes, or within  *)
(* one of them.                                                             *)
(***************************************************************************)
RECURSIVE LoopSaves(_)
\* respond_decision, lines 103-110: the records that the loop saves, in
\* order: propose saves (line 126) when it proposes, perform always
\* (lines 143 and 155).
LoopSaves(st) ==
    IF st.decision_slot \notin DOMAIN st.decisions
    THEN <<>>
    ELSE LET ds == st.decision_slot
             c1 == st.decisions[ds]
             p  == IF ds \in DOMAIN st.proposals /\ ~CmdEq(c1, st.proposals[ds])
                   THEN Propose(st, st.proposals[ds])
                   ELSE [st |-> st, out |-> <<>>]
             after == [p.st EXCEPT !.decision_slot = ds + 1]
         IN (IF p.out # <<>> THEN <<p.st>> ELSE <<>>) \o <<after>> \o LoopSaves(after)

\* respond_decision: the records that the call saves (line 102, then the
\* loop).
DecisionSaves(st, m) == <<DecisionInsert(st, m)>> \o LoopSaves(DecisionInsert(st, m))

\* The process ends while the Replica of server r handles the Decision m:
\* after one of the saves of the call, or within it, when Storage::save has
\* cut the file and not yet written the record (load then returns None).
CrashInDecision(r, m) ==
    /\ m \in msgs /\ m.type = "Decision" /\ m.to = r
    /\ up[r]
    /\ hist.crashes < MaxCrashes
    /\ up' = [up EXCEPT ![r] = FALSE]
    /\ lInbox' = [lInbox EXCEPT ![r] = <<>>]
    /\ scouts' = [scouts EXCEPT ![r] = {}]
    /\ commanders' = [commanders EXCEPT ![r] = {}]
    /\ active' = [active EXCEPT ![r] = FALSE]
    /\ executed' = [executed EXCEPT ![r] = <<>>]
    /\ hist' = [hist EXCEPT !.crashes = @ + 1,
                            !.preCrash = [@ EXCEPT ![r] = executed[r]],
                            !.adopt = [@ EXCEPT ![r] = NoAdopt]]
    /\ \E k \in DOMAIN DecisionSaves(rStable[r], m) : \E torn \in BOOLEAN :
          rDisk' = [rDisk EXCEPT ![r] =
                       IF torn THEN NoRecord ELSE DecisionSaves(rStable[r], m)[k]]
    /\ UNCHANGED <<count, aStable, aDisk, lStable, lDisk, rStable, msgs>>

NextReplicaCrash ==
    \/ Request /\ UNCHANGED <<sched, store, hub, peers>>
    \/ InputDecision
    \/ StepReplicaDecision /\ UNCHANGED <<sched, store, hub, peers>>
    \/ (\E m \in msgs : CrashInDecision(0, m)) /\ UNCHANGED <<sched, store, hub, peers>>
    \/ StepRestart /\ UNCHANGED <<sched, store, hub, peers>>

SpecReplicaCrash == InitReplica /\ [][NextReplicaCrash]_vars

(***************************************************************************)
(* The Acceptor of server 0 alone, as above, where the process ends in the  *)
(* middle of the save that an input causes, after at most MaxBefore inputs. *)
(***************************************************************************)
InputCrashInSave ==
    /\ sched <= MaxBefore
    /\ \/ \E b \in InBallots :
             CrashInSave(0, [aStable[0] EXCEPT !.ballot = P1ABallot(@, b)])
       \/ \E pv \in InPValues :
             /\ P2AAccepts(aStable[0], pv)
             /\ CrashInSave(0, P2AStable(aStable[0], pv))
    /\ sched' = sched + 1 /\ UNCHANGED <<store, hub, peers>>

NextAcceptorCrash ==
    \/ sched < MaxBefore /\ InputP1A
    \/ sched < MaxBefore /\ InputP2A
    \/ InputCrashInSave
    \/ StepRestart /\ UNCHANGED <<sched, store, hub, peers>>

SpecAcceptorCrash == InitAcceptor /\ [][NextAcceptorCrash]_vars

(***************************************************************************)
(* A Storage alone, holding records of the Acceptor: the records in        *)
(* StoreRecords are saved in any order, and the process may end and start   *)
(* again (a new Storage on the same file, then load) between any two saves. *)
(***************************************************************************)
StorePValues ==
    {PValue(s, b, Cmd(k, 1, 1)) : s \in 0 .. 1, b \in {Ballot(1, 0), Ballot(2, 1)}, k \in 1 .. 2}

StoreMaps ==
    {EmptyMap} \cup {MapInsert(EmptyMap, pv.s_id, pv) : pv \in StorePValues}
        \cup {MapInsert(MapInsert(EmptyMap, p.s_id, p), q.s_id, q) :
                 p \in {x \in StorePValues : x.s_id = 0 /\ x.command.client_id = 1},
                 q \in {x \in StorePValues : x.s_id = 1 /\ x.command.client_id = 2}}

StoreRecords == {[ballot |-> b, accepted |-> m] : b \in InBallots, m \in StoreMaps}

OthersUnchanged ==
    UNCHANGED <<count, up, aStable, aDisk, lStable, lDisk, active, lInbox, scouts,
                commanders, rStable, rDisk, executed, msgs, hist, sched, hub, peers>>

StorageSave ==
    \E r \in StoreRecords : \E o \in Orders(DOMAIN r.accepted) :
        /\ store' = Save(store, r, o)
        /\ OthersUnchanged

StorageReload ==
    /\ store' = Reload(store)
    /\ OthersUnchanged

InitStorage == InitCluster(1)

NextStorage == StorageSave \/ StorageReload

SpecStorage == InitStorage /\ [][NextStorage]_vars

(***************************************************************************)
(* The hub of server 0 alone, in a cluster of two: Peer tasks for           *)
(* connections to server 1 (dialled or accepted) come and go, Commanders    *)
(* register and leave, the Scout is replaced, and at most MaxSends messages *)
(* are sent, broadcast or taken from a connection, in any order.  A         *)
(* connection is registered under whatever id its first Ping carries.       *)
(***************************************************************************)
HubIds == 0 .. 1

HubBallot == Ballot(1, 0)

HubCids == {<<HubBallot, 0>>, <<HubBallot, 1>>}

HubMsgs ==
    {P1AMsg(HubBallot, -1, 0), P1BMsg(1, HubBallot, {}, 0),
     P2AMsg(PValue(0, HubBallot, Cmd(1, 1, 1)), 0),
     P2BMsg(HubBallot, 0, 1, HubBallot, 0), P2BMsg(HubBallot, 1, 1, HubBallot, 0),
     DecisionMsg(0, Cmd(1, 1, 1), 0), PingMsg(1)}

HubRest ==
    UNCHANGED <<count, up, aStable, aDisk, lStable, lDisk, active, lInbox, scouts,
                commanders, rStable, rDisk, executed, msgs, hist, store, peers>>

\* A task of the server calls State::send.
HubSend ==
    \E id \in HubIds : \E m \in HubMsgs :
        /\ sched < MaxSends
        /\ hub' = [Send(hub, id, m) EXCEPT !.last = <<"send", id, m>>]
        /\ sched' = sched + 1
        /\ HubRest

\* Commander::send_decide calls State::broadcast.
HubDecide ==
    \E m \in {x \in HubMsgs : x.type = "Decision"} :
        /\ sched < MaxSends
        /\ hub' = [HubBroadcast(hub, m) EXCEPT !.last = <<"broadcast", hub.id, m>>]
        /\ sched' = sched + 1
        /\ HubRest

\* Peer::poll takes a message from its connection.
HubIncoming ==
    \E n \in DOMAIN hub.links : \E m \in HubMsgs :
        /\ sched < MaxSends
        /\ hub' = [RespondIncoming(hub, m) EXCEPT !.last = <<"incoming", n, m>>]
        /\ sched' = sched + 1
        /\ HubRest

\* Commander::new and Drop for Commander
HubCommander ==
    \E cid \in HubCids :
        /\ hub' = IF cid \in DOMAIN hub.commander_txs
                  THEN [DisconnectCommander(hub, cid) EXCEPT !.last = <<"exit", cid>>]
                  ELSE [ConnectCommander(hub, cid) EXCEPT !.last = <<"spawn", cid>>]
        /\ UNCHANGED sched
        /\ HubRest

\* Scout::new
HubScout ==
    /\ hub' = [HubReplaceScout(hub) EXCEPT !.last = <<"scout">>]
    /\ UNCHANGED sched
    /\ HubRest

\* A new Peer task for a connection to server j registers its tx.
NewLink(h, j) ==
    [ConnectPeer(h, j, h.next) EXCEPT
        !.links = MapInsert(@, h.next, [peer |-> j, rx |-> <<>>]),
        !.next = @ + 1]

\* Config::run dials server j: Peer::new
LinkDial ==
    \E j \in (HubIds \ {hub.id}) \ hub.dialled :
        /\ hub.next <= MaxLinks
        /\ hub' = [NewLink(hub, j) EXCEPT !.dialled = @ \cup {j},
                                          !.last = <<"dial", j>>]
        /\ UNCHANGED sched
        /\ HubRest

\* An accepted connection delivers its first Ping: Connecting::poll
LinkAccept ==
    \E j \in HubIds :
        /\ hub.next <= MaxLinks
        /\ hub' = [NewLink(hub, j) EXCEPT !.last = <<"accept", j>>]
        /\ UNCHANGED sched
        /\ HubRest

\* Peer::poll writes the messages of its rx to the connection.
LinkPoll ==
    \E n \in DOMAIN hub.links :
        /\ hub.links[n].rx # <<>>
        /\ hub' = [hub EXCEPT !.links = [@ EXCEPT ![n] = [@ EXCEPT !.rx = <<>>]],
                              !.last = <<"poll", n>>]
        /\ UNCHANGED sched
        /\ HubRest

\* The connection of Peer task n fails; the task ends: Drop for Peer
LinkDrop ==
    \E n \in DOMAIN hub.links :
        /\ hub' = [DisconnectPeer(hub, hub.links[n].peer) EXCEPT
                      !.links = MapRemove(@, n), !.last = <<"drop", n>>]
        /\ UNCHANGED sched
        /\ HubRest

InitRouter == InitCluster(2)

NextRouter ==
    \/ HubSend
    \/ HubDecide
    \/ HubIncoming
    \/ HubCommander
    \/ HubScout
    \/ LinkDial
    \/ LinkAccept
    \/ LinkPoll
    \/ LinkDrop

SpecRouter == InitRouter /\ [][NextRouter]_vars

(***************************************************************************)
(* The client connections of server 0 alone: clients 1 and 2 connect (and   *)
(* connect again), send requests, their connections fail, and the Replica   *)
(* answers, in any order; at most MaxLinks connections and MaxSends         *)
(* requests and responses.                                                  *)
(***************************************************************************)
ClientIds == 1 .. 2

RequestMsg(c) == [type |-> "Request", command |-> c]

\* A connection delivers its first request, of client c: Connecting::poll
\* registers a new Client task and hands the request to the Replica.
ClientAccept ==
    \E c \in ClientIds :
        /\ hub.cnext <= MaxLinks
        /\ hub' = [SendReplica(ConnectClient(hub, c, hub.cnext), RequestMsg(Cmd(c, 1, 1)))
                      EXCEPT !.clients = MapInsert(@, hub.cnext, [id |-> c, rx |-> <<>>]),
                             !.newest = MapInsert(@, c, hub.cnext),
                             !.cnext = @ + 1,
                             !.last = <<"client", c>>]
        /\ UNCHANGED sched
        /\ HubRest

\* Client::poll: a further request of the connection goes to the Replica,
\* and the responses of rx are written to the connection.
ClientPoll ==
    \E n \in DOMAIN hub.clients : \E more \in BOOLEAN :
        /\ more => sched < MaxSends
        /\ more \/ hub.clients[n].rx # <<>>
        /\ LET h == IF more
                    THEN SendReplica(hub, RequestMsg(Cmd(hub.clients[n].id, 1, 1)))
                    ELSE hub
           IN hub' = [h EXCEPT !.clients = [@ EXCEPT ![n] = [@ EXCEPT !.rx = <<>>]],
                               !.last = <<"request", n>>]
        /\ sched' = IF more THEN sched + 1 ELSE sched
        /\ HubRest

\* Replica::perform sends the result of a command of client c.
HubRespond ==
    \E c \in ClientIds :
        /\ sched < MaxSends
        /\ hub' = [SendClient(hub, c, sched + 1) EXCEPT !.last = <<"respond", c>>]
        /\ sched' = sched + 1
        /\ HubRest

\* The connection of Client task n fails; the task ends: Drop for Client
ClientDrop ==
    \E n \in DOMAIN hub.clients :
        /\ hub' = [DisconnectClient(hub, hub.clients[n].id) EXCEPT
                      !.clients = MapRemove(@, n), !.last = <<"gone", n>>]
        /\ UNCHANGED sched
        /\ HubRest

NextClients ==
    \/ ClientAccept
    \/ ClientPoll
    \/ HubRespond
    \/ ClientDrop

SpecClients == InitRouter /\ [][NextClients]_vars

(***************************************************************************)
(* The hub of a server whose tasks send to destinations that come and go:   *)
(* peers, Commanders, the Scout and clients.                                *)
(***************************************************************************)
\* Scout::poll returns Ready: the Scout is dropped, and its rx with it.
HubScoutExit ==
    /\ hub.scout_open
    /\ hub' = [hub EXCEPT !.scout = <<>>, !.scout_open = FALSE, !.last = <<"scout gone">>]
    /\ UNCHANGED sched
    /\ HubRest

NextMissing ==
    \/ HubSend
    \/ HubIncoming
    \/ HubRespond
    \/ HubCommander
    \/ HubScout
    \/ HubScoutExit
    \/ LinkDial
    \/ ClientAccept

SpecMissing == InitRouter /\ [][NextMissing]_vars

(***************************************************************************)
(* One connection that server 1 dials to server 0.  At server 1, Peer::new  *)
(* registers the Peer task at once; its timer fires first one ping interval *)
(* later, its hub may send before.  At server 0 the connection is a         *)
(* Connecting until it has read a Ping, then a Peer task.  conn.rx is the   *)
(* rx of the Peer task at server 1, conn.wire what is written to the        *)
(* connection and not yet read, conn.link the number of the Peer task at    *)
(* server 0 (0 before), conn.discarded what Connecting read and dropped.    *)
(***************************************************************************)
\* Config::run of server 1 dials server 0 (Peer::new); the listener of
\* server 0 accepts (Connecting::new).
PingDial ==
    /\ hub.conn = NoConn
    /\ hub' = [hub EXCEPT !.conn = [from |-> 1, rx |-> <<>>, wire |-> <<>>, link |-> 0,
                                    pings |-> 0, discarded |-> <<>>],
                          !.last = <<"dialled", 1>>]
    /\ UNCHANGED sched
    /\ HubRest

\* A task of server 1 calls State::send(0, m): m is put in the rx of the
\* Peer task registered for 0.
PingRemoteSend ==
    \E m \in {x \in HubMsgs : x.type # "Ping"} :
        /\ hub.conn # NoConn
        /\ sched < MaxSends
        /\ hub' = [hub EXCEPT !.conn = [@ EXCEPT !.rx = Append(@, m)],
                              !.last = <<"remote", m>>]
        /\ sched' = sched + 1
        /\ HubRest

\* Peer::poll at server 1: a Ping if the timer has fired, then the messages
\* of rx.
PingRemotePoll ==
    \E tick \in BOOLEAN :
        /\ hub.conn # NoConn
        /\ tick => hub.conn.pings < MaxPings
        /\ tick \/ hub.conn.rx # <<>>
        /\ hub' = [hub EXCEPT
              !.conn = [@ EXCEPT
                  !.wire = @ \o (IF tick THEN <<PingMsg(hub.conn.from)>> ELSE <<>>)
                             \o hub.conn.rx,
                  !.rx = <<>>,
                  !.pings = IF tick THEN @ + 1 ELSE @],
              !.last = <<"remote poll", tick>>]
        /\ UNCHANGED sched
        /\ HubRest

\* The loop of Connecting::poll over the messages w read from the
\* connection: those before the first Ping are dropped.
RECURSIVE ConnectingLoop(_, _)
ConnectingLoop(w, dropped) ==
    IF w = <<>> THEN [found |-> FALSE, rest |-> <<>>, dropped |-> dropped]
    ELSE IF Head(w).type = "Ping"
         THEN [found |-> TRUE, rest |-> Tail(w), dropped |-> dropped]
         ELSE ConnectingLoop(Tail(w), Append(dropped, Head(w)))

\* Connecting::poll at server 0
PingConnecting ==
    /\ hub.conn # NoConn /\ hub.conn.link = 0 /\ hub.conn.wire # <<>>
    /\ LET r == ConnectingLoop(hub.conn.wire, hub.conn.discarded)
           h == IF r.found THEN NewLink(hub, hub.conn.from) ELSE hub
       IN hub' = [h EXCEPT !.conn = [@ EXCEPT !.wire = r.rest,
                                              !.discarded = r.dropped,
                                              !.link = IF r.found THEN hub.next ELSE 0],
                           !.last = <<"connecting", r.found>>]
    /\ UNCHANGED sched
    /\ HubRest

\* The loop of Peer::poll over the messages w read from the connection.
RECURSIVE IncomingLoop(_, _)
IncomingLoop(h, w) ==
    IF w = <<>> THEN h
    ELSE IncomingLoop(IF Head(w).type = "Ping" THEN h ELSE RespondIncoming(h, Head(w)),
                      Tail(w))

\* Peer::poll at server 0, incoming messages
PingPeerPoll ==
    /\ hub.conn # NoConn /\ hub.conn.link # 0 /\ hub.conn.wire # <<>>
    /\ hub' = [IncomingLoop(hub, hub.conn.wire) EXCEPT
                  !.conn = [@ EXCEPT !.wire = <<>>], !.last = <<"peer poll">>]
    /\ UNCHANGED sched
    /\ HubRest

NextPing ==
    \/ PingDial
    \/ PingRemoteSend
    \/ PingRemotePoll
    \/ PingConnecting
    \/ PingPeerPoll

SpecPing == InitRouter /\ [][NextPing]_vars

(***************************************************************************)
(* The Leader of server 0 with its Scouts and Commanders, in a cluster of   *)
(* 1 to MaxCount servers.  The acceptors and the Replica are the            *)
(* environment: an acceptor answers a P1A or a P2A that was sent to it,     *)
(* with the ballot of the message or with a higher one that it has from     *)
(* another Leader, any number of times and in any order; the Replica        *)
(* proposes a command for a slot.  sched counts the answers.                *)
(***************************************************************************)
\* Ballots of the Leader of server 1
ForeignBallots == {Ballot(b, l) : b \in 1 .. MaxForeign, l \in Srv \cap {1}}

\* The ballots an acceptor can answer a message of ballot b with
ReplyBallots(b) == {b} \cup {x \in ForeignBallots : BallotLt(b, x)}

\* pvalues that the Leader of server 1 has had accepted with its first
\* ballot
ForeignPValues == {PValue(s, Ballot(1, 1), Cmd(s + 1, 1, 1)) : s \in 0 .. 1}

\* What an acceptor of ballot b answers with: nothing, or one pvalue of a
\* ballot not above b.
AcceptedSets(b) == {{}} \cup {{pv} : pv \in {q \in ForeignPValues : BallotLe(q.b_id, b)}}

\* Acceptor::send_p1b of acceptor a, in answer to a P1A of server 0
InputP1B ==
    \E p \in {m \in msgs : m.type = "P1A"} :
      \E b \in ReplyBallots(p.b_id) : \E pvs \in AcceptedSets(b) :
        /\ sched < MaxReplies
        /\ msgs' = msgs \cup {P1BMsg(p.to, b, pvs, 0)}
        /\ sched' = sched + 1 /\ UNCHANGED <<store, hub, peers>>
        /\ UNCHANGED <<count, up, aStable, aDisk, lStable, lDisk, active, lInbox, scouts,
                       commanders, rStable, rDisk, executed, hist>>

\* Acceptor::send_p2b of acceptor a, in answer to a P2A of server 0
InputP2B ==
    \E p \in {m \in msgs : m.type = "P2A"} :
      \E b \in ReplyBallots(p.pvalue.b_id) :
        /\ sched < MaxReplies
        /\ msgs' = msgs \cup {P2BMsg(p.pvalue.b_id, p.pvalue.s_id, p.to, b, 0)}
        /\ sched' = sched + 1 /\ UNCHANGED <<store, hub, peers>>
        /\ UNCHANGED <<count, up, aStable, aDisk, lStable, lDisk, active, lInbox, scouts,
                       commanders, rStable, rDisk, executed, hist>>

\* Replica::propose: a Propose is sent to the Leader of server 0.
InputPropose ==
    \E s \in 0 .. 1 :
        /\ s \notin DOMAIN lStable[0].proposals
        /\ \A k \in DOMAIN lInbox[0] : lInbox[0][k].type # "Propose"
        /\ lInbox' = [lInbox EXCEPT ![0] = Append(@, ProposeMsg(s, Cmd(3, 1, 1)))]
        /\ UNCHANGED <<count, up, aStable, aDisk, lStable, lDisk, active, scouts,
                       commanders, rStable, rDisk, executed, msgs, hist, sched, store,
                       hub, peers>>

InitLeader == \E n \in 1 .. MaxCount : InitCluster(n)

NextLeader ==
    \/ InputP1B
    \/ InputP2B
    \/ InputPropose
    \/ TaskScoutTick(0) /\ UNCHANGED <<sched, store, hub, peers>>
    \/ TaskScoutP1B(0) /\ UNCHANGED <<sched, store, hub, peers>>
    \/ TaskCommanderP2B(0) /\ UNCHANGED <<sched, store, hub, peers>>
    \/ TaskLeaderPropose(0) /\ UNCHANGED <<sched, store, hub, peers>>
    \/ TaskLeaderPreempt(0) /\ UNCHANGED <<sched, store, hub, peers>>
    \/ TaskLeaderAdopt(0) /\ UNCHANGED <<sched, store, hub, peers>>

SpecLeader == InitLeader /\ [][NextLeader]_vars

(***************************************************************************)
(* The same Leader when its channel also carries Decide: leader::In has the *)
(* variant and Leader::poll handles it.  The Replica proposes for a slot    *)
(* whether or not the Leader has a proposal for it.  The cluster has fewer  *)
(* than MaxCount servers.                                                   *)
(***************************************************************************)
\* leader::In::Decide(s) is put in the channel of Leader 0.
InputDecide ==
    \E s \in 0 .. 1 :
        /\ sched < MaxReplies
        /\ \A k \in DOMAIN lInbox[0] : lInbox[0][k].type # "Decide"
        /\ lInbox' = [lInbox EXCEPT ![0] = Append(@, DecideMsg(s))]
        /\ sched' = sched + 1 /\ UNCHANGED <<store, hub, peers>>
        /\ UNCHANGED <<count, up, aStable, aDisk, lStable, lDisk, active, scouts,
                       commanders, rStable, rDisk, executed, msgs, hist>>

\* Replica::propose: a Propose for any slot is sent to the Leader of server 0.
InputProposeAny ==
    \E s \in 0 .. 1 :
        /\ \A k \in DOMAIN lInbox[0] : lInbox[0][k].type # "Propose"
        /\ lInbox' = [lInbox EXCEPT ![0] = Append(@, ProposeMsg(s, Cmd(3, 1, 1)))]
        /\ UNCHANGED <<count, up, aStable, aDisk, lStable, lDisk, active, scouts,
                       commanders, rStable, rDisk, executed, msgs, hist, sched, store,
                       hub, peers>>

TaskLeaderDecide(i) == lInbox[i] # <<>> /\ LeaderDecide(i, Head(lInbox[i]))

InitDecide == \E n \in 1 .. (MaxCount - 1) : InitCluster(n)

NextDecide ==
    \/ InputP1B
    \/ InputP2B
    \/ InputProposeAny
    \/ InputDecide
    \/ TaskScoutTick(0) /\ UNCHANGED <<sched, store, hub, peers>>
    \/ TaskScoutP1B(0) /\ UNCHANGED <<sched, store, hub, peers>>
    \/ TaskCommanderP2B(0) /\ UNCHANGED <<sched, store, hub, peers>>
    \/ TaskLeaderPropose(0) /\ UNCHANGED <<sched, store, hub, peers>>
    \/ TaskLeaderPreempt(0) /\ UNCHANGED <<sched, store, hub, peers>>
    \/ TaskLeaderAdopt(0) /\ UNCHANGED <<sched, store, hub, peers>>
    \/ TaskLeaderDecide(0) /\ UNCHANGED <<sched, store, hub, peers>>

SpecDecide == InitDecide /\ [][NextDecide]_vars

(***************************************************************************)
(* Retransmission.  The Scout and the Commanders of Leader 0 in a cluster   *)
(* of two servers, with `msgs` holding the messages in flight: a            *)
(* request leaves it when its acceptor answers it or when the network       *)
(* loses it.  `sched` counts the requests lost.                             *)
(***************************************************************************)
Requests == {m \in msgs : m.type \in {"P1A", "P2A"}}

RetransmitFrame ==
    UNCHANGED <<count, up, aStable, aDisk, lStable, lDisk, active, lInbox, scouts,
                commanders, rStable, rDisk, executed, hist, store, hub, peers>>

\* A request on its way to another server is lost with its connection.
LoseRequest ==
    \E m \in Requests :
        /\ m.to # 0
        /\ sched < MaxLost
        /\ msgs' = msgs \ {m}
        /\ sched' = sched + 1
        /\ RetransmitFrame

\* Acceptor::send_p1a of an acceptor that has seen no other ballot
AnswerP1A ==
    \E m \in Requests :
        /\ m.type = "P1A"
        /\ msgs' = (msgs \ {m}) \cup {P1BMsg(m.to, m.b_id, {}, 0)}
        /\ UNCHANGED sched /\ RetransmitFrame

\* Acceptor::send_p2a of an acceptor that has seen no other ballot
AnswerP2A ==
    \E m \in Requests :
        /\ m.type = "P2A"
        /\ msgs' = (msgs \ {m})
                      \cup {P2BMsg(m.pvalue.b_id, m.pvalue.s_id, m.to, m.pvalue.b_id, 0)}
        /\ UNCHANGED sched /\ RetransmitFrame

TaskCommanderTick(i) == \E cm \in commanders[i] : CommanderTick(i, cm)

StepRetransmitScout == TaskScoutTick(0) /\ UNCHANGED <<sched, store, hub, peers>>

StepRetransmitCommander == TaskCommanderTick(0) /\ UNCHANGED <<sched, store, hub, peers>>

InitRetransmit == InitCluster(2)

NextRetransmit ==
    \/ LoseRequest
    \/ AnswerP1A
    \/ AnswerP2A
    \/ InputPropose
    \/ StepRetransmitScout
    \/ StepRetransmitCommander
    \/ TaskScoutP1B(0) /\ UNCHANGED <<sched, store, hub, peers>>
    \/ TaskCommanderP2B(0) /\ UNCHANGED <<sched, store, hub, peers>>
    \/ TaskLeaderPropose(0) /\ UNCHANGED <<sched, store, hub, peers>>
    \/ TaskLeaderAdopt(0) /\ UNCHANGED <<sched, store, hub, peers>>

\* The timers of the Scout and of the Commanders keep firing.
RetransmitFairness ==
    /\ WF_vars(StepRetransmitScout)
    /\ \A s \in 0 .. 1 :
         WF_vars(\E cm \in commanders[0] :
                    cm.s_id = s /\ CommanderTick(0, cm)
                    /\ UNCHANGED <<sched, store, hub, peers>>)

SpecRetransmit == InitRetransmit /\ [][NextRetransmit]_vars /\ RetransmitFairness

(***************************************************************************)
(* Scheduled runs.  A schedule is a sequence of steps <<task, server, ...>>: *)
(* step number sched + 1 of the run is a step of the task named there.  A   *)
(* Request names the key of the command; a step of an Acceptor names the    *)
(* ballot (and slot) of the P1A (P2A) it takes; a step of a Scout or a      *)
(* Commander names the ballot (and slot) of the Scout or Commander, which   *)
(* takes any of the messages it can take; a Replica takes any Decision.     *)
(***************************************************************************)
Turn(S, k, i) ==
    /\ sched < Len(S)
    /\ S[sched + 1][1] = k /\ S[sched + 1][2] = i
    /\ sched' = sched + 1 /\ UNCHANGED <<store, hub, peers>>

TurnRequest(S, i) ==
    /\ Turn(S, "Request", i)
    /\ \E d \in 1 .. MaxData : HandleRequest(i, Cmd(S[sched + 1][3], 1, d))

TurnP1A(S, i) ==
    /\ Turn(S, "P1A", i)
    /\ \E m \in msgs : m.type = "P1A" /\ m.b_id = S[sched + 1][3] /\ AcceptorP1A(i, m)

TurnP2A(S, i) ==
    /\ Turn(S, "P2A", i)
    /\ \E m \in msgs : /\ m.type = "P2A"
                        /\ m.pvalue.b_id = S[sched + 1][3]
                        /\ m.pvalue.s_id = S[sched + 1][4]
                        /\ AcceptorP2A(i, m)

TurnTick(S, i) ==
    /\ Turn(S, "Tick", i)
    /\ \E sc \in scouts[i] : sc.ballot = S[sched + 1][3] /\ ScoutTick(i, sc)

TurnP1B(S, i) ==
    /\ Turn(S, "P1B", i)
    /\ \E sc \in scouts[i] :
          /\ sc.ballot = S[sched + 1][3]
          /\ \E m \in msgs \cup sc.queued : ScoutP1B(i, sc, m)

TurnP2B(S, i) ==
    /\ Turn(S, "P2B", i)
    /\ \E cm \in commanders[i] :
          /\ cm.b_id = S[sched + 1][3] /\ cm.s_id = S[sched + 1][4]
          /\ \E m \in msgs \cup cm.queued : CommanderP2B(i, cm, m)

(***************************************************************************)
(* Two servers whose Leaders compete for the ballot.  The first copy of the *)
(* P2A that the Commander of slot 1 sends to server 1 is lost; the          *)
(* Commander sends it again on its timer.                                   *)
(***************************************************************************)
B10 == Ballot(1, 0)

B11 == Ballot(1, 1)

B20 == Ballot(2, 0)

B31 == Ballot(3, 1)

B40 == Ballot(4, 0)

DuelSchedule ==
    << <<"Request", 0, 1>>, <<"Request", 0, 1>>, <<"Propose", 0>>, <<"Propose", 0>>,
       <<"Tick", 0, B10>>, <<"P1A", 0, B10>>, <<"P1A", 1, B10>>,
       <<"P1B", 0, B10>>, <<"P1B", 0, B10>>,
       <<"Tick", 1, B11>>, <<"P1A", 1, B11>>, <<"P1B", 1, B11>>,
       <<"Adopt", 0>>,
       <<"P2A", 0, B10, 0>>, <<"P2A", 0, B10, 1>>,
       <<"P2B", 0, B10, 0>>, <<"P2B", 0, B10, 1>>,
       <<"P2A", 1, B10, 0>>, <<"P2B", 0, B10, 0>>, <<"Preempt", 0>>,
       <<"Tick", 0, B20>>, <<"P1A", 0, B20>>, <<"P1B", 0, B20>>, <<"P1A", 1, B20>>,
       <<"P1A", 0, B11>>, <<"P1B", 1, B11>>, <<"Preempt", 1>>,
       <<"Request", 1, 1>>, <<"Request", 1, 1>>, <<"Request", 1, 3>>,
       <<"Propose", 1>>, <<"Propose", 1>>, <<"Propose", 1>>,
       <<"Tick", 1, B31>>, <<"P1A", 1, B31>>, <<"P1A", 0, B31>>,
       <<"P1B", 1, B31>>, <<"P1B", 1, B31>>, <<"Adopt", 1>>,
       <<"P2A", 1, B10, 1>>, <<"P2B", 0, B10, 1>>, <<"P1B", 0, B20>>,
       <<"Preempt", 0>>, <<"Adopt", 0>>,
       <<"Request", 0, 2>>, <<"Propose", 0>>,
       <<"P2A", 0, B31, 2>>, <<"P2A", 1, B31, 2>>,
       <<"P2B", 1, B31, 2>>, <<"P2B", 1, B31, 2>>,
       <<"P2A", 0, B40, 2>>, <<"P2A", 1, B40, 2>>,
       <<"P2B", 0, B40, 2>>, <<"P2B", 0, B40, 2>>,
       <<"P2A", 0, B40, 0>>, <<"P2A", 1, B40, 0>>,
       <<"P2B", 0, B40, 0>>, <<"P2B", 0, B40, 0>>,
       <<"P2A", 0, B40, 1>>, <<"P2A", 1, B40, 1>>,
       <<"P2B", 0, B40, 1>>, <<"P2B", 0, B40, 1>>,
       <<"Decision", 0>>, <<"Decision", 0>>, <<"Decision", 0>>,
       <<"Decision", 1>>, <<"Decision", 1>>, <<"Decision", 1>> >>

InitDuel == InitCluster(2)

NextDuel ==
    \/ \E i \in Srv : TurnRequest(DuelSchedule, i)
    \/ \E i \in Srv : TurnP1A(DuelSchedule, i)
    \/ \E i \in Srv : TurnP2A(DuelSchedule, i)
    \/ \E i \in Srv : TurnTick(DuelSchedule, i)
    \/ \E i \in Srv : TurnP1B(DuelSchedule, i)
    \/ \E i \in Srv : TurnP2B(DuelSchedule, i)
    \/ \E i \in Srv : Turn(DuelSchedule, "Propose", i) /\ TaskLeaderPropose(i)
    \/ \E i \in Srv : Turn(DuelSchedule, "Preempt", i) /\ TaskLeaderPreempt(i)
    \/ \E i \in Srv : Turn(DuelSchedule, "Adopt", i) /\ TaskLeaderAdopt(i)
    \/ \E i \in Srv : Turn(DuelSchedule, "Decision", i) /\ TaskReplicaDecision(i)

SpecDuel == InitDuel /\ [][NextDuel]_vars

\* The same run with one more Decision taken by the Replica of server 0.
LateSchedule == DuelSchedule \o << <<"Decision", 0>> >>

NextLate ==
    \/ \E i \in Srv : TurnRequest(LateSchedule, i)
    \/ \E i \in Srv : TurnP1A(LateSchedule, i)
    \/ \E i \in Srv : TurnP2A(LateSchedule, i)
    \/ \E i \in Srv : TurnTick(LateSchedule, i)
    \/ \E i \in Srv : TurnP1B(LateSchedule, i)
    \/ \E i \in Srv : TurnP2B(LateSchedule, i)
    \/ \E i \in Srv : Turn(LateSchedule, "Propose", i) /\ TaskLeaderPropose(i)
    \/ \E i \in Srv : Turn(LateSchedule, "Preempt", i) /\ TaskLeaderPreempt(i)
    \/ \E i \in Srv : Turn(LateSchedule, "Adopt", i) /\ TaskLeaderAdopt(i)
    \/ \E i \in Srv : Turn(LateSchedule, "Decision", i) /\ TaskReplicaDecision(i)

SpecLate == InitDuel /\ [][NextLate]_vars

(***************************************************************************)
(* The run of the two competing Leaders up to the activation of Leader 0    *)
(* under (4, 0), continued: the Commander of ((4, 0), slot 0) gets its      *)
(* replies, the Scout of (4, 0) completes its round, and the Leader handles *)
(* its Adopt.                                                               *)
(***************************************************************************)
TwinSchedule ==
    SubSeq(DuelSchedule, 1, 44) \o
    << <<"Tick", 0, B40>>, <<"P1A", 0, B40>>, <<"P1A", 1, B40>>,
       <<"P2A", 0, B40, 0>>, <<"P2A", 1, B40, 0>>,
       <<"P1B", 0, B40>>, <<"P1B", 0, B40>>, <<"Adopt", 0>>,
       <<"P2B", 0, B40, 0>>, <<"P2B", 0, B40, 0>>,
       <<"Decision", 0>>, <<"Decision", 1>> >>

NextTwin ==
    \/ \E i \in Srv : TurnRequest(TwinSchedule, i)
    \/ \E i \in Srv : TurnP1A(TwinSchedule, i)
    \/ \E i \in Srv : TurnP2A(TwinSchedule, i)
    \/ \E i \in Srv : TurnTick(TwinSchedule, i)
    \/ \E i \in Srv : TurnP1B(TwinSchedule, i)
    \/ \E i \in Srv : TurnP2B(TwinSchedule, i)
    \/ \E i \in Srv : Turn(TwinSchedule, "Propose", i) /\ TaskLeaderPropose(i)
    \/ \E i \in Srv : Turn(TwinSchedule, "Preempt", i) /\ TaskLeaderPreempt(i)
    \/ \E i \in Srv : Turn(TwinSchedule, "Adopt", i) /\ TaskLeaderAdopt(i)
    \/ \E i \in Srv : Turn(TwinSchedule, "Decision", i) /\ TaskReplicaDecision(i)

SpecTwin == InitDuel /\ [][NextTwin]_vars

(***************************************************************************)
(* Connections between servers.                                             *)
(***************************************************************************)
\* The connection of server i to server j fails and its Peer task ends:
\* Drop for Peer removes the entry of j.
Unlink(i, j) ==
    /\ up[i] /\ j \in peers[i]
    /\ peers' = [peers EXCEPT ![i] = @ \ {j}]
    /\ UNCHANGED <<count, up, aStable, aDisk, lStable, lDisk, active, lInbox, scouts,
                   commanders, rStable, rDisk, executed, msgs, hist>>

\* A connection of server i to server j is made and its Peer task
\* registers: Peer::new, Connecting::poll.
Link(i, j) ==
    /\ up[i] /\ j \in Srv \ {i}
    /\ peers' = [peers EXCEPT ![i] = @ \cup {j}]
    /\ UNCHANGED <<count, up, aStable, aDisk, lStable, lDisk, active, lInbox, scouts,
                   commanders, rStable, rDisk, executed, msgs, hist>>

TurnUnlink(S, i) ==
    /\ sched < Len(S)
    /\ S[sched + 1][1] = "Unlink" /\ S[sched + 1][2] = i
    /\ Unlink(i, S[sched + 1][3])
    /\ sched' = sched + 1 /\ UNCHANGED <<store, hub>>

TurnLink(S, i) ==
    /\ sched < Len(S)
    /\ S[sched + 1][1] = "Link" /\ S[sched + 1][2] = i
    /\ Link(i, S[sched + 1][3])
    /\ sched' = sched + 1 /\ UNCHANGED <<store, hub>>

(***************************************************************************)
(* Two servers, both Leaders active in turn and then idle.  Leader 1 gets a *)
(* command accepted for slot 0 by both Acceptors; the connection of server  *)
(* 1 to server 0 fails before its Commander has counted the replies, and is *)
(* made again after the Decision.  A second command is then proposed for   *)
(* slot 1; from there on every task of both servers runs freely.            *)
(***************************************************************************)
HealSchedule ==
    << <<"Tick", 0, B10>>, <<"P1A", 0, B10>>, <<"P1A", 1, B10>>,
       <<"P1B", 0, B10>>, <<"P1B", 0, B10>>, <<"Adopt", 0>>,
       <<"Tick", 1, B11>>, <<"P1A", 0, B11>>, <<"P1A", 1, B11>>,
       <<"P1B", 1, B11>>, <<"P1B", 1, B11>>, <<"Adopt", 1>>,
       <<"Request", 1, 1>>, <<"Propose", 1>>,
       <<"P2A", 0, B11, 0>>, <<"P2A", 1, B11, 0>>,
       <<"Unlink", 1, 0>>,
       <<"P2B", 1, B11, 0>>, <<"P2B", 1, B11, 0>>,
       <<"Decision", 1>>,
       <<"Link", 1, 0>>,
       <<"Request", 1, 2>>, <<"Propose", 1>> >>

HealDone == sched = Len(HealSchedule)

\* A step of any task once the schedule is over.
HealFree(A) == HealDone /\ A /\ UNCHANGED <<sched, store, hub, peers>>

HealTasks ==
    \/ StepAcceptorP1A
    \/ StepAcceptorP2A
    \/ StepScoutTick
    \/ StepScoutP1B
    \/ StepCommanderP2B
    \/ StepLeaderPropose
    \/ StepLeaderPreempt
    \/ StepLeaderAdopt
    \/ StepReplicaDecision

NextHeal ==
    \/ \E i \in Srv : TurnRequest(HealSchedule, i)
    \/ \E i \in Srv : TurnP1A(HealSchedule, i)
    \/ \E i \in Srv : TurnP2A(HealSchedule, i)
    \/ \E i \in Srv : TurnTick(HealSchedule, i)
    \/ \E i \in Srv : TurnP1B(HealSchedule, i)
    \/ \E i \in Srv : TurnP2B(HealSchedule, i)
    \/ \E i \in Srv : Turn(HealSchedule, "Propose", i) /\ TaskLeaderPropose(i)
    \/ \E i \in Srv : Turn(HealSchedule, "Adopt", i) /\ TaskLeaderAdopt(i)
    \/ \E i \in Srv : Turn(HealSchedule, "Decision", i) /\ TaskReplicaDecision(i)
    \/ \E i \in Srv : TurnUnlink(HealSchedule, i)
    \/ \E i \in Srv : TurnLink(HealSchedule, i)
    \/ HealFree(HealTasks)

\* The schedule is run to its end, and then every task is polled again
\* whenever a message or a timer wakes it.
HealFairness ==
    /\ WF_vars(NextHeal)
    /\ WF_vars(HealFree(StepAcceptorP1A))
    /\ WF_vars(HealFree(StepAcceptorP2A))
    /\ WF_vars(HealFree(StepScoutTick))
    /\ WF_vars(HealFree(StepScoutP1B))
    /\ WF_vars(HealFree(StepCommanderP2B))
    /\ WF_vars(HealFree(StepLeaderPropose))
    /\ WF_vars(HealFree(StepLeaderPreempt))
    /\ WF_vars(HealFree(StepLeaderAdopt))
    /\ WF_vars(HealFree(StepReplicaDecision))

SpecHeal == InitDuel /\ [][NextHeal]_vars /\ HealFairness

(***************************************************************************)
(* Two servers.  Leader 0 is adopted with its first ballot and has a       *)
(* Commander for each of two slots.  Leader 1 competes: the Commander of    *)
(* slot 0 is preempted and Leader 0 starts its second Scout, which gets the *)
(* answer of acceptor 0 only; Leader 1 is preempted in turn and takes a     *)
(* higher ballot, which preempts the Commander of slot 1, and Leader 0      *)
(* starts its third Scout.  Leader 1 is adopted, then Leader 0, whose       *)
(* Commanders get both slots decided.  From there on every task of both     *)
(* servers runs freely.                                                     *)
(***************************************************************************)
SupersedeSchedule ==
    << <<"Tick", 0, B10>>, <<"P1A", 0, B10>>, <<"P1A", 1, B10>>,
       <<"P1B", 0, B10>>, <<"P1B", 0, B10>>, <<"Adopt", 0>>,
       <<"Request", 0, 1>>, <<"Propose", 0>>, <<"Request", 0, 2>>, <<"Propose", 0>>,
       <<"Tick", 1, B11>>, <<"P1A", 0, B11>>,
       <<"P2A", 0, B10, 0>>, <<"P2B", 0, B10, 0>>, <<"Preempt", 0>>,
       <<"Tick", 0, B20>>, <<"P1A", 0, B20>>, <<"P1B", 0, B20>>,
       <<"P1A", 0, B11>>, <<"P1B", 1, B11>>, <<"Preempt", 1>>,
       <<"Tick", 1, B31>>, <<"P1A", 0, B31>>,
       <<"P2A", 0, B10, 1>>, <<"P2B", 0, B10, 1>>, <<"Preempt", 0>>,
       <<"P1A", 1, B31>>, <<"P1B", 1, B31>>, <<"P1B", 1, B31>>, <<"Adopt", 1>>,
       <<"Tick", 0, B40>>, <<"P1A", 0, B40>>, <<"P1A", 1, B40>>,
       <<"P1B", 0, B40>>, <<"P1B", 0, B40>>, <<"Adopt", 0>>,
       <<"P2A", 0, B40, 0>>, <<"P2A", 1, B40, 0>>,
       <<"P2A", 0, B40, 1>>, <<"P2A", 1, B40, 1>>,
       <<"P2B", 0, B40, 0>>, <<"P2B", 0, B40, 0>>,
       <<"P2B", 0, B40, 1>>, <<"P2B", 0, B40, 1>>,
       <<"Decision", 0>>, <<"Decision", 0>>, <<"Decision", 1>>, <<"Decision", 1>> >>

SupersedeDone == sched = Len(SupersedeSchedule)

\* A step of any task once the schedule is over.
SupersedeFree(A) == SupersedeDone /\ A /\ UNCHANGED <<sched, store, hub, peers>>

NextSupersede ==
    \/ \E i \in Srv : TurnRequest(SupersedeSchedule, i)
    \/ \E i \in Srv : TurnP1A(SupersedeSchedule, i)
    \/ \E i \in Srv : TurnP2A(SupersedeSchedule, i)
    \/ \E i \in Srv : TurnTick(SupersedeSchedule, i)
    \/ \E i \in Srv : TurnP1B(SupersedeSchedule, i)
    \/ \E i \in Srv : TurnP2B(SupersedeSchedule, i)
    \/ \E i \in Srv : Turn(SupersedeSchedule, "Propose", i) /\ TaskLeaderPropose(i)
    \/ \E i \in Srv : Turn(SupersedeSchedule, "Preempt", i) /\ TaskLeaderPreempt(i)
    \/ \E i \in Srv : Turn(SupersedeSchedule, "Adopt", i) /\ TaskLeaderAdopt(i)
    \/ \E i \in Srv : Turn(SupersedeSchedule, "Decision", i) /\ TaskReplicaDecision(i)
    \/ SupersedeFree(HealTasks)

SpecSupersede == InitDuel /\ [][NextSupersede]_vars

(***************************************************************************)
(* The same run, in which moreover the second Scout of Leader 0 takes what  *)
(* is left in its channel and copies of earlier messages reach the          *)
(* acceptors before every task runs freely.                                 *)
(***************************************************************************)
LingerSchedule ==
    SupersedeSchedule \o
    << <<"P1B", 0, B20>>, <<"P1B", 0, B20>>, <<"P1B", 0, B20>>,
       <<"P1A", 0, B10>>, <<"P1A", 1, B10>>, <<"P1A", 0, B11>>, <<"P1A", 1, B11>>,
       <<"P2A", 0, B10, 0>>, <<"P2A", 0, B10, 1>>,
       <<"P2A", 1, B10, 0>>, <<"P2A", 1, B10, 1>> >>

LingerDone == sched = Len(LingerSchedule)

\* A step of any task once the schedule is over.
LingerFree(A) == LingerDone /\ A /\ UNCHANGED <<sched, store, hub, peers>>

NextLinger ==
    \/ \E i \in Srv : TurnRequest(LingerSchedule, i)
    \/ \E i \in Srv : TurnP1A(LingerSchedule, i)
    \/ \E i \in Srv : TurnP2A(LingerSchedule, i)
    \/ \E i \in Srv : TurnTick(LingerSchedule, i)
    \/ \E i \in Srv : TurnP1B(LingerSchedule, i)
    \/ \E i \in Srv : TurnP2B(LingerSchedule, i)
    \/ \E i \in Srv : Turn(LingerSchedule, "Propose", i) /\ TaskLeaderPropose(i)
    \/ \E i \in Srv : Turn(LingerSchedule, "Preempt", i) /\ TaskLeaderPreempt(i)
    \/ \E i \in Srv : Turn(LingerSchedule, "Adopt", i) /\ TaskLeaderAdopt(i)
    \/ \E i \in Srv : Turn(LingerSchedule, "Decision", i) /\ TaskReplicaDecision(i)
    \/ LingerFree(HealTasks)

\* The schedule is run to its end, and then every task is polled again
\* whenever a message or a timer wakes it.
LingerFairness ==
    /\ WF_vars(NextLinger)
    /\ WF_vars(LingerFree(StepAcceptorP1A))
    /\ WF_vars(LingerFree(StepAcceptorP2A))
    /\ WF_vars(LingerFree(StepScoutTick))
    /\ WF_vars(LingerFree(StepScoutP1B))
    /\ WF_vars(LingerFree(StepCommanderP2B))
    /\ WF_vars(LingerFree(StepLeaderPropose))
    /\ WF_vars(LingerFree(StepLeaderPreempt))
    /\ WF_vars(LingerFree(StepLeaderAdopt))
    /\ WF_vars(LingerFree(StepReplicaDecision))

SpecLinger == InitDuel /\ [][NextLinger]_vars /\ LingerFairness

(***************************************************************************)
(* Three servers.  Leader 1 gets a command accepted for slot 0 by its own   *)
(* Acceptor; Leader 0 overtakes it with ballot (2, 0), spawns a Commander    *)
(* for slot 0, crashes and restarts.  The P2A of the Commander lost in the  *)
(* crash reaches server 2 after the restart.                                *)
(***************************************************************************)
RestartSchedule ==
    << <<"Tick", 1, B11>>, <<"P1A", 1, B11>>, <<"P1A", 2, B11>>,
       <<"P1B", 1, B11>>, <<"P1B", 1, B11>>,
       <<"Adopt", 1>>, <<"Request", 1, 2>>, <<"Propose", 1>>,
       <<"P2A", 1, B11, 0>>, <<"P2B", 1, B11, 0>>,
       <<"Tick", 0, B10>>, <<"P1A", 2, B10>>, <<"P1B", 0, B10>>, <<"Preempt", 0>>,
       <<"Request", 0, 1>>, <<"Propose", 0>>,
       <<"Tick", 0, B20>>, <<"P1A", 0, B20>>, <<"P1A", 2, B20>>,
       <<"P1B", 0, B20>>, <<"P1B", 0, B20>>, <<"Adopt", 0>>,
       <<"Crash", 0>>, <<"Restart", 0>>,
       <<"P2A", 2, B20, 0>>,
       <<"Tick", 0, B20>>, <<"P1A", 0, B20>>, <<"P1A", 1, B20>>,
       <<"P1B", 0, B20>>, <<"P1B", 0, B20>>, <<"Adopt", 0>>,
       <<"P2B", 0, B20, 0>>, <<"P2A", 0, B20, 0>>, <<"P2B", 0, B20, 0>>,
       <<"P2A", 2, B11, 0>>, <<"P2B", 1, B11, 0>>, <<"Preempt", 1>>,
       <<"Tick", 1, B31>>, <<"P1A", 1, B31>>, <<"P1A", 2, B31>>,
       <<"P1B", 1, B31>>, <<"P1B", 1, B31>>, <<"Adopt", 1>>,
       <<"P2A", 1, B31, 0>>, <<"P2A", 2, B31, 0>>,
       <<"P2B", 1, B31, 0>>, <<"P2B", 1, B31, 0>> >>

InitRestart == InitCluster(3)

NextRestart ==
    \/ \E i \in Srv : TurnRequest(RestartSchedule, i)
    \/ \E i \in Srv : TurnP1A(RestartSchedule, i)
    \/ \E i \in Srv : TurnP2A(RestartSchedule, i)
    \/ \E i \in Srv : TurnTick(RestartSchedule, i)
    \/ \E i \in Srv : TurnP1B(RestartSchedule, i)
    \/ \E i \in Srv : TurnP2B(RestartSchedule, i)
    \/ \E i \in Srv : Turn(RestartSchedule, "Propose", i) /\ TaskLeaderPropose(i)
    \/ \E i \in Srv : Turn(RestartSchedule, "Preempt", i) /\ TaskLeaderPreempt(i)
    \/ \E i \in Srv : Turn(RestartSchedule, "Adopt", i) /\ TaskLeaderAdopt(i)
    \/ \E i \in Srv : Turn(RestartSchedule, "Crash", i) /\ Crash(i)
    \/ \E i \in Srv : Turn(RestartSchedule, "Restart", i) /\ Restart(i)

SpecRestart == InitRestart /\ [][NextRestart]_vars

(***************************************************************************)
(* The same run up to the preemption of Leader 1, whose new Scout then      *)
(* hears from acceptors 0 and 2.                                            *)
(***************************************************************************)
TieSchedule ==
    SubSeq(RestartSchedule, 1, 37) \o
    << <<"Tick", 1, B31>>, <<"P1A", 0, B31>>, <<"P1A", 2, B31>>,
       <<"P1B", 1, B31>>, <<"P1B", 1, B31>>, <<"Adopt", 1>>,
       <<"P2A", 1, B31, 0>>, <<"P2A", 2, B31, 0>>,
       <<"P2B", 1, B31, 0>>, <<"P2B", 1, B31, 0>> >>

NextTie ==
    \/ \E i \in Srv : TurnRequest(TieSchedule, i)
    \/ \E i \in Srv : TurnP1A(TieSchedule, i)
    \/ \E i \in Srv : TurnP2A(TieSchedule, i)
    \/ \E i \in Srv : TurnTick(TieSchedule, i)
    \/ \E i \in Srv : TurnP1B(TieSchedule, i)
    \/ \E i \in Srv : TurnP2B(TieSchedule, i)
    \/ \E i \in Srv : Turn(TieSchedule, "Propose", i) /\ TaskLeaderPropose(i)
    \/ \E i \in Srv : Turn(TieSchedule, "Preempt", i) /\ TaskLeaderPreempt(i)
    \/ \E i \in Srv : Turn(TieSchedule, "Adopt", i) /\ TaskLeaderAdopt(i)
    \/ \E i \in Srv : Turn(TieSchedule, "Crash", i) /\ Crash(i)
    \/ \E i \in Srv : Turn(TieSchedule, "Restart", i) /\ Restart(i)

SpecTie == InitRestart /\ [][NextTie]_vars

(***************************************************************************)
(* Properties of the Acceptor.                                              *)
(***************************************************************************)
\* C9: Acceptor monotonicity.  In every step the highest-seen ballot of each
\* Acceptor is at least what it was, and the ballot of the reply the step
\* sends (P1B or P2B) is at least the ballot of the Acceptor's previous reply.
C9_AcceptorMonotone ==
    [][\A a \in Srv :
          /\ BallotLe(aStable[a].ballot, aStable'[a].ballot)
          /\ BallotLe(hist.lastReply[a], hist'.lastReply[a])]_vars

\* The Acceptor answered a P1A of a lower ballot with its own higher ballot,
\* then crashed, restarted and took all its inputs.
C9_Witness ==
    /\ sched = MaxInputs /\ hist.crashes = 1 /\ up[0]
    /\ \E m \in msgs : /\ m.type = "P1B"
                        /\ m.to # m.b_id.l_id
                        /\ m.b_id = aStable[0].ballot

\* C10: Acceptor single-value.  The accepted map holds one pvalue per slot,
\* filed under its own slot; its ballot is the highest ballot at which this
\* Acceptor ever accepted a pvalue for the slot; and no stored pvalue has a
\* ballot above the Acceptor's highest-seen ballot.
C10_AcceptorSingleValue ==
    \A a \in Srv : \A s \in DOMAIN aStable[a].accepted :
        LET pv == aStable[a].accepted[s]
        IN /\ pv.s_id = s
           /\ [a_id |-> a, pvalue |-> pv] \in hist.accepted
           /\ \A h \in hist.accepted :
                 (h.a_id = a /\ h.pvalue.s_id = s) => BallotLe(h.pvalue.b_id, pv.b_id)
           /\ BallotLe(pv.b_id, aStable[a].ballot)

\* The Acceptor replaced the pvalue of a slot by one of a higher ballot and
\* refused a P2A of a lower ballot (its P2B carries another ballot than the
\* Commander's), with pvalues stored for two slots.
C10_Witness ==
    /\ Cardinality(DOMAIN aStable[0].accepted) = 2
    /\ \E h1, h2 \in hist.accepted :
          h1.pvalue.s_id = h2.pvalue.s_id /\ BallotLt(h1.pvalue.b_id, h2.pvalue.b_id)
    /\ \E m \in msgs : m.type = "P2B" /\ m.c_b # m.b_id

(***************************************************************************)
(* Properties of the Replica.                                               *)
(***************************************************************************)
\* C5: at-most-once execution.  On every replica no two calls of execute made
\* on its state machine carry commands of the same key (client id, local id).
C5_AtMostOnce ==
    \A r \in Srv : \A i, j \in DOMAIN executed[r] :
        i # j => ~CmdEq(executed[r][i].command, executed[r][j].command)

\* C7: recovery equivalence.  The calls of execute a restarted Replica made
\* during replay are exactly the calls it had made before the crash (same
\* slots, same commands, same order).
C7_RecoveryEquivalence ==
    \A r \in Srv : (up[r] /\ hist.crashes > 0) => hist.replayed[r] = hist.preCrash[r]

\* C6: Replica determinism.  The calls of execute a Replica has made are in
\* strictly ascending slot order (so at most one per slot), each with a
\* command that a Decision for its slot carried, each for a slot below
\* decision_slot, and every slot below decision_slot has been decided.
C6_ReplicaDeterminism ==
    \A r \in Srv :
        LET ex == executed[r]
            st == rStable[r]
        IN /\ \A i, j \in DOMAIN ex : i < j => ex[i].slot < ex[j].slot
           /\ \A i \in DOMAIN ex :
                 /\ ex[i].slot < st.decision_slot
                 /\ \E m \in msgs : /\ m.type = "Decision" /\ m.to = r
                                     /\ m.s_id = ex[i].slot /\ m.command = ex[i].command
           /\ \A s \in 0 .. (st.decision_slot - 1) : s \in DOMAIN st.decisions

\* The Replica has executed slot 0, holds the Decision of slot 2 while slot 1
\* is not decided, and has been sent two different Decisions for slot 0.
C6_Witness ==
    /\ Len(executed[0]) = 1
    /\ rStable[0].decision_slot = 1
    /\ 2 \in DOMAIN rStable[0].decisions
    /\ 1 \notin DOMAIN rStable[0].decisions
    /\ hist.crashes = 0
    /\ \E m \in msgs : /\ m.type = "Decision" /\ m.s_id = 0
                        /\ m.command # rStable[0].decisions[0]

(***************************************************************************)
(* Properties of the cluster.                                               *)
(***************************************************************************)
\* C8: Integrity.  Every command carried by a Decision, stored in an
\* Acceptor's accepted map or stored in a Replica's decisions map is, payload
\* included, a command that a client sent as a Request before.
C8_Integrity ==
    /\ \A m \in msgs : m.type = "Decision" => m.command \in hist.requested
    /\ \A a \in Srv : \A s \in DOMAIN aStable[a].accepted :
          aStable[a].accepted[s].command \in hist.requested
    /\ \A r \in Srv : \A s \in DOMAIN rStable[r].decisions :
          rStable[r].decisions[s] \in hist.requested

\* After a restart the Scout collected accepted pvalues, the Leader took its
\* proposals from them, and two slots were decided and recorded.
C8_Witness ==
    /\ hist.crashes = 1 /\ up[0]
    /\ hist.adopt[0].pvalues # {}
    /\ Cardinality(DOMAIN rStable[0].decisions) = 2
    /\ Cardinality(DOMAIN aStable[0].accepted) = 2
    /\ \E m \in msgs : m.type = "Decision" /\ m.s_id = 1

\* C1: Agreement.  All Decision messages ever broadcast for one slot carry
\* the same command (same key), and so do the entries any two Replicas
\* recorded for one slot.
C1_Agreement ==
    /\ \A m1, m2 \in msgs :
          (m1.type = "Decision" /\ m2.type = "Decision" /\ m1.s_id = m2.s_id)
              => CmdEq(m1.command, m2.command)
    /\ \A r1, r2 \in Srv :
          \A s \in (DOMAIN rStable[r1].decisions) \cap (DOMAIN rStable[r2].decisions) :
              CmdEq(rStable[r1].decisions[s], rStable[r2].decisions[s])

\* C3: P1 safety.  For every Commander spawned with pvalue (s, B, c): the
\* Leader was made active by the Scout of ballot B, a majority of acceptors
\* has sent a P1B with ballot B to that Leader, and if that Scout collected
\* pvalues for slot s then c is the command of one of highest ballot.
C3_P1Safety ==
    \A sp \in hist.spawned :
        LET B == sp.pvalue.b_id
            s == sp.pvalue.s_id
            replied == {a \in Srv : \E m \in msgs : /\ m.type = "P1B" /\ m.to = sp.by
                                                     /\ m.a_id = a /\ m.b_id = B}
        IN /\ sp.scout = B
           /\ Cardinality(replied) > Minority
           /\ (s \in PmaxSlots(sp.pvalues)) =>
                 \E pv \in PmaxBest(sp.pvalues, s) : CmdEq(pv.command, sp.pvalue.command)

\* C4: Total order.  Of the sequences of commands any two Replicas have
\* passed to their state machines, one is a prefix of the other.
C4_TotalOrder ==
    \A r1, r2 \in Srv :
        \A i \in (DOMAIN executed[r1]) \cap (DOMAIN executed[r2]) :
            CmdEq(executed[r1][i].command, executed[r2][i].command)

\* C2: Agreement across a Leader's crash and restart.  Once a server has
\* crashed and restarted, with its Leader back at the ballot it had, still
\* no two Decision messages for one slot carry different commands.
C2_AgreementAcrossRestart ==
    (\E i \in Srv : up[i] /\ hist.restarted[i]) =>
        \A m1, m2 \in {m \in msgs : m.type = "Decision"} :
            m1.s_id = m2.s_id => CmdEq(m1.command, m2.command)

\* C11: Leader ballot uniqueness.  Of the ballots for which a Leader has
\* spawned a Scout, each has a sequence number strictly greater than those
\* spawned for before it (a crash and restart in between or not), and each
\* names the Leader's own server.
C11_BallotUniqueness ==
    \A i \in Srv :
        /\ \A k \in DOMAIN hist.issued[i] : hist.issued[i][k].l_id = i
        /\ \A j, k \in DOMAIN hist.issued[i] :
              j < k => hist.issued[i][j].b_id < hist.issued[i][k].b_id

\* C13: Storage round trip.  What load returns after the process started
\* again is exactly the record of the last save, whatever was saved before
\* it and however long that was, and nothing (None) if nothing was saved.
C13_StorageRoundTrip == store.reloaded => store.loaded = store.saved

\* A record of one entry was loaded back after a record of two entries had
\* been saved before it.
C13_Witness ==
    /\ store.reloaded /\ store.loaded # NoRecord
    /\ Cardinality(DOMAIN store.loaded.accepted) = 1
    /\ store.longest > Len(store.file)

\* C12: durable state precedes reply.  A running Acceptor whose file holds
\* a record has that record in memory; and whatever crashes happened, its
\* ballot is not lower than the ballot of any reply it ever sent, and for
\* every pvalue it ever acknowledged it holds a pvalue of that slot with a
\* ballot at least as high.
C12_DurableBeforeReply ==
    \A a \in Srv : up[a] =>
        /\ aDisk[a] # NoRecord => aDisk[a] = aStable[a]
        /\ BallotLe(hist.lastReply[a], aStable[a].ballot)
        /\ \A h \in hist.accepted : h.a_id = a =>
              /\ h.pvalue.s_id \in DOMAIN aStable[a].accepted
              /\ BallotLe(h.pvalue.b_id, aStable[a].accepted[h.pvalue.s_id].b_id)

\* C14: pmax correctness.  For the pvalues P of every Adopt a Leader has
\* handled and every order in which pmax may be handed them, the result
\* maps exactly the slots of P, each to the command of the pvalues of
\* highest ballot among those of P for the slot (so that the order makes
\* no difference).
C14_PmaxCorrect ==
    \A i \in Srv :
        LET P == hist.adopt[i].pvalues
        IN \A o \in Orders(P) :
              /\ DOMAIN Pmax(o) = PmaxSlots(P)
              /\ \A s \in PmaxSlots(P) : \A pv \in PmaxBest(P, s) :
                    CmdEq(Pmax(o)[s], pv.command)


\* The state machine of server r has applied command c.
ExecutedAt(r, c) ==
    \E k \in 1 .. Len(executed[r]) : CmdEq(executed[r][k].command, c)

\* C15: progress under a stable leader: every request a Replica receives once
\* its Leader has completed a phase 1 round and runs on undisturbed is
\* eventually decided and executed at that Replica.
C15_Progress == \A c \in Commands : (c \in hist.late) ~> ExecutedAt(0, c)

\* The live Peer tasks of the hub that are connected to server j.
LiveTo(j) == {n \in DOMAIN hub.links : hub.links[n].peer = j}

\* C16: self-delivery: State::send to the own id has the effect of
\* State::forward: P1A and P2A go to the Acceptor's channel, P1B to the
\* Scout's, P2B to the channel of the Commander registered under its id (or
\* nowhere), a Decision to the Replica's, a Ping nowhere; the Peer tasks get
\* nothing, whatever the peers map holds for the own id.
C16_SelfDelivery ==
    \A m \in HubMsgs :
        LET s == Send(hub, hub.id, m)
        IN /\ s = Forward(hub, m)
           /\ s.links = hub.links /\ s.peer_txs = hub.peer_txs
           /\ s.acceptor = IF m.type \in {"P1A", "P2A"}
                           THEN Append(hub.acceptor, m) ELSE hub.acceptor
           /\ s.scout = IF m.type = "P1B" /\ hub.scout_open
                        THEN Append(hub.scout, m) ELSE hub.scout
           /\ s.replica = IF m.type = "Decision"
                          THEN Append(hub.replica, m) ELSE hub.replica
           /\ s.commander_txs =
                 IF m.type = "P2B" /\ <<m.c_b, m.c_s>> \in DOMAIN hub.commander_txs
                 THEN [hub.commander_txs EXCEPT ![<<m.c_b, m.c_s>>] = Append(@, m)]
                 ELSE hub.commander_txs

\* A P2B sent to the own id has reached its Commander while a Peer task is
\* registered under the own id.
C16_Witness ==
    /\ hub.last[1] = "send" /\ hub.last[2] = hub.id /\ hub.last[3].type = "P2B"
    /\ hub.id \in DOMAIN hub.peer_txs
    /\ hub.peer_txs[hub.id] \in DOMAIN hub.links
    /\ hub.links[hub.peer_txs[hub.id]].rx = <<>>
    /\ \E cid \in DOMAIN hub.commander_txs : hub.commander_txs[cid] = <<hub.last[3]>>

\* C20: whenever a Peer task connected to a remote server j is alive, the
\* peers map has an entry for j and it leads to a live Peer task connected
\* to j, also when two connections to j coexist and one is torn down.
C20_PeerRegistered ==
    \A j \in HubIds \ {hub.id} :
        LiveTo(j) # {} => j \in DOMAIN hub.peer_txs /\ hub.peer_txs[j] \in LiveTo(j)

\* C18: a Leader is active only by the Adopt of the Scout created for its
\* current ballot B, after a majority of acceptors replied to it with a P1B
\* of ballot exactly B; the Adopt of a superseded Scout does not activate it.
C18_ActiveByCurrentScout ==
    \A i \in Srv :
        active[i] =>
            /\ hist.adopt[i].scout = lStable[i].ballot
            /\ Cardinality({a \in Srv : \E m \in msgs :
                               /\ m.type = "P1B" /\ m.to = i /\ m.a_id = a
                               /\ m.b_id = lStable[i].ballot}) > Minority

\* C19: every live Commander is registered in the hub under its
\* CommanderID, and no two live Commanders of a server have the same
\* CommanderID (so the exit of one cannot take away the registration of
\* another).
C19_CommanderRegistered ==
    \A i \in Srv :
        /\ \A cm \in commanders[i] : ~cm.frozen
        /\ \A c1, c2 \in commanders[i] :
              SameId(c1, c2.b_id, c2.s_id) => c1 = c2

\* Every server runs and has every other server in its peers map.
Connected == \A i \in Srv : up[i] /\ peers[i] = Srv \ {i}

\* A Decision for slot s was broadcast, and none was sent to server r.
MissedAt(r, s) ==
    /\ \E m \in msgs : m.type = "Decision" /\ m.s_id = s
    /\ ~\E m \in msgs : m.type = "Decision" /\ m.s_id = s /\ m.to = r

\* Replica r has recorded the decision of slot s and moved past it.
LearnedAt(r, s) == s \in DOMAIN rStable[r].decisions /\ rStable[r].decision_slot > s

\* C17: decisions are eventually learned: when a slot was decided while the
\* broadcasting server had no connection to replica r, then once the
\* connections are back replica r eventually records the decision and its
\* decision cursor moves past the slot.
C17_DecisionsLearned ==
    \A r \in 0 .. 1 : \A s \in 0 .. MaxSlot :
        (Connected /\ MissedAt(r, s)) ~> LearnedAt(r, s)

\* C21: a client that connected again keeps its registration: as long as
\* the Client task that registered last under a client id is alive, the
\* clients map leads to it (the end of an earlier task of that client does
\* not remove or replace the entry), so a response for the id reaches it.
C21_ClientRegistered ==
    \A c \in DOMAIN hub.newest :
        hub.newest[c] \in DOMAIN hub.clients =>
            c \in DOMAIN hub.client_txs /\ hub.client_txs[c] = hub.newest[c]

\* C22: on a connection between servers the Ping comes first: the
\* accepting side reads and drops no P1A, P1B, P2A, P2B or Decision for
\* having arrived before the Ping.
C22_PingFirst == hub.conn # NoConn => hub.conn.discarded = <<>>

\* The message that a step appends to the channel of Leader i, if any
SentToLeader(i) ==
    IF Len(lInbox'[i]) = Len(lInbox[i]) + 1
    THEN {lInbox'[i][Len(lInbox'[i])]}
    ELSE {}

\* The P1B messages for server i that carry the ballot of Scout sc
OwnP1B(i, sc) ==
    {m \in msgs \cup sc.queued : m.type = "P1B" /\ m.to = i /\ m.b_id = sc.ballot}

\* C23: a Scout sends Adopt only when P1B messages with exactly its ballot
\* have come from distinct acceptors that are more than half of the count
\* acceptors, and the Adopt carries the union of the pvalues of those
\* messages.
C23_AdoptByMajority ==
    [][\A i \in Srv : \A ad \in SentToLeader(i) :
          ad.type = "Adopt" =>
             \E sc \in scouts[i] \ scouts'[i] : \E R \in SUBSET OwnP1B(i, sc) :
                /\ sc.ballot = ad.scout
                /\ {m.a_id : m \in R} \subseteq Srv
                /\ 2 * Cardinality({m.a_id : m \in R}) > count
                /\ ad.pvalues = UNION {m.pvalues : m \in R}]_vars

\* A Scout of a cluster of two has sent an Adopt that carries a pvalue.
C23_Witness ==
    /\ count = 2
    /\ \E k \in DOMAIN lInbox[0] : lInbox[0][k].type = "Adopt" /\ lInbox[0][k].pvalues # {}

\* The P2B messages for Commander cm of server i that carry its ballot
OwnP2B(i, cm) ==
    {m \in P2BFor(i, cm.b_id, cm.s_id) \cup cm.queued : m.b_id = cm.b_id}

\* C24: a Commander broadcasts its Decision only when P2B messages with
\* exactly its ballot have come from distinct acceptors that are more than
\* half of the count acceptors; the Decision then goes to the Replica of its
\* own server and to every server registered in the hub, one message each,
\* nothing goes to the Leader, and the Commander is gone.
C24_DecisionByMajority ==
    [][\A i \in Srv : \A d \in msgs' \ msgs :
          (d.type = "Decision" /\ up[i] /\ commanders'[i] # commanders[i]) =>
             \E cm \in commanders[i] \ commanders'[i] : \E R \in SUBSET OwnP2B(i, cm) :
                /\ cm.s_id = d.s_id /\ cm.command = d.command
                /\ {m.a_id : m \in R} \subseteq Srv
                /\ 2 * Cardinality({m.a_id : m \in R}) > count
                /\ msgs' = msgs \cup {DecisionMsg(cm.s_id, cm.command, j) :
                                        j \in {i} \cup peers[i]}
                /\ SentToLeader(i) = {}
                /\ \A x \in commanders'[i] : ~SameId(x, cm.b_id, cm.s_id) \/ x.frozen]_vars

\* A Commander of a cluster of two has broadcast its Decision.
C24_Witness ==
    /\ count = 2
    /\ \E m \in msgs : m.type = "Decision" /\ m.to = 1

\* Scout sc of server i is gone after the step.
ScoutGone(i, sc) == sc \in scouts[i] /\ \A x \in scouts'[i] : x.ballot # sc.ballot

\* C25: a Scout ends only by sending its Leader one message, an Adopt of its
\* ballot or a Preempt with the greater ballot of a P1B it was sent; a step
\* in which a Scout sends ends it; a P1B of a lower ballot leaves the
\* acceptors it waits for and its pvalues as they are.
C25_ScoutTerminal ==
    [][\A i \in Srv :
          /\ \A sc \in scouts[i] : ScoutGone(i, sc) =>
                \E out \in SentToLeader(i) :
                   \/ out.type = "Adopt" /\ out.scout = sc.ballot
                   \/ /\ out.type = "Preempt"
                      /\ BallotLt(sc.ballot, out.ballot)
                      /\ \E m \in msgs \cup sc.queued :
                            m.type = "P1B" /\ m.to = i /\ m.b_id = out.ballot
          /\ (scouts'[i] # scouts[i] /\ SentToLeader(i) # {}) =>
                /\ \E sc \in scouts[i] : ScoutGone(i, sc)
                /\ scouts'[i] \subseteq scouts[i]
                /\ Cardinality(scouts[i] \ scouts'[i]) = 1
          /\ \A sc \in scouts[i] : \A x \in scouts'[i] \ scouts[i] :
                x.ballot = sc.ballot =>
                   \/ x.waiting = sc.waiting /\ x.pvalues = sc.pvalues
                   \/ \E m \in OwnP1B(i, sc) :
                         /\ x.waiting = sc.waiting \ {m.a_id}
                         /\ x.pvalues = sc.pvalues \cup m.pvalues]_vars

\* A Scout has been preempted and is gone, and the Scout that follows it
\* has been sent a P1B of a lower ballot.
C25_Witness ==
    /\ \E sc \in scouts[0] : \E m \in msgs :
          m.type = "P1B" /\ m.to = 0 /\ BallotLt(m.b_id, sc.ballot)
    /\ Len(hist.issued[0]) = 2

\* Commander cm of server i is gone after the step.
CommanderGone(i, cm) ==
    cm \in commanders[i] /\ \A x \in commanders'[i] :
                               ~(SameId(x, cm.b_id, cm.s_id) /\ x.command = cm.command)

\* C26: a Commander ends only by broadcasting its Decision, or by sending
\* its Leader one Preempt with the greater ballot of a P2B that it was
\* sent, and then without a Decision; a step in which a Commander sends a
\* Preempt ends it.
C26_CommanderTerminal ==
    [][\A i \in Srv :
          /\ \A cm \in commanders[i] : CommanderGone(i, cm) =>
                \/ /\ SentToLeader(i) = {}
                   /\ DecisionMsg(cm.s_id, cm.command, i) \in msgs'
                \/ /\ msgs' = msgs
                   /\ \E out \in SentToLeader(i) :
                         /\ out.type = "Preempt"
                         /\ BallotLt(cm.b_id, out.ballot)
                         /\ \E m \in P2BFor(i, cm.b_id, cm.s_id) \cup cm.queued :
                               m.b_id = out.ballot
          /\ (commanders'[i] # commanders[i] /\ SentToLeader(i) # {}) =>
                /\ msgs' = msgs
                /\ Cardinality({cm \in commanders[i] : CommanderGone(i, cm)}) = 1]_vars

\* A Commander of an active Leader has been preempted and is gone.
C26_Witness ==
    /\ active[0] /\ commanders[0] = {}
    /\ \E k \in DOMAIN lInbox[0] : lInbox[0][k].type = "Preempt"

\* Server i has a Scout of ballot number b.
ScoutAlive(i, b) == \E sc \in scouts[i] : sc.ballot = Ballot(b, i)

\* C27: with every server connected and every task running, every Scout
\* comes to its end, one that a newer Scout of its Leader has replaced in
\* the hub too.
C27_ScoutsEnd ==
    \A b \in 1 .. MaxSeq : (LingerDone /\ ScoutAlive(0, b)) ~> ~ScoutAlive(0, b)

\* C28: the hub holds the sender of one Scout, the one created last, which
\* has the ballot of its Leader; a P1B that comes after a newer Scout was
\* created is not given to a Scout that was replaced; a P1B of a ballot
\* lower than that of the Scout that takes it changes neither the acceptors
\* it waits for nor its pvalues and sends nothing to the Leader.
C28_OneScoutHandle ==
    [][\A i \in Srv :
          /\ Cardinality({sc \in scouts[i] : ~sc.frozen}) <= 1
          /\ \A sc \in scouts[i] : ~sc.frozen => sc.ballot = lStable[i].ballot
          /\ \A x \in scouts'[i] : x.frozen =>
                \E sc \in scouts[i] :
                   /\ sc.ballot = x.ballot
                   /\ x.queued \subseteq (IF sc.frozen THEN sc.queued ELSE msgs)
          /\ \A sc \in scouts[i] :
                LET low == {m \in msgs \cup sc.queued :
                               m.type = "P1B" /\ m.to = i /\ BallotLt(m.b_id, sc.ballot)}
                    rest == IF sc.frozen THEN sc.queued \ low ELSE {}
                IN (rest = {} /\ \A m \in msgs : ~(m.type = "P1B" /\ m.to = i /\ ~sc.frozen
                                                     /\ BallotLe(sc.ballot, m.b_id)))
                      => /\ ~ScoutGone(i, sc)
                         /\ \A x \in scouts'[i] : x.ballot = sc.ballot =>
                               x.waiting = sc.waiting /\ x.pvalues = sc.pvalues]_vars

\* A Scout has been replaced in the hub, and a P1B of an acceptor it waits
\* for, with a ballot not below its own, has come since.
C28_Witness ==
    \E sc \in scouts[0] : \E m \in msgs \ sc.queued :
        /\ sc.frozen
        /\ m.type = "P1B" /\ m.to = 0 /\ m.a_id \in sc.waiting
        /\ BallotLe(sc.ballot, m.b_id)

\* The step is one of Leader i that takes a message of type t from its
\* channel.
LeaderTakes(i, t) ==
    /\ lInbox[i] # <<>> /\ Head(lInbox[i]).type = t
    /\ lInbox'[i] = Tail(lInbox[i])

\* The Commanders of server i that are registered in the hub after the step
\* and were not before
NewCommanders(i) ==
    {cm \in commanders'[i] :
        /\ ~cm.frozen
        /\ \A x \in commanders[i] :
              x.frozen \/ ~SameId(x, cm.b_id, cm.s_id) \/ x.command # cm.command}

\* C29: when the Leader takes an Adopt, its proposals get, for every slot of
\* the pvalues, the command of a pvalue of the highest ballot of that slot,
\* and keep their entry for every other slot; for every entry of the result
\* (decided is unset) one Commander of the Leader's ballot is registered and
\* sends its P2A, and no other Commander is new; the Leader is active, its
\* ballot is as before and the record is saved.
C29_Adopt ==
    [][\A i \in Srv : LeaderTakes(i, "Adopt") =>
          LET pvs == Head(lInbox[i]).pvalues
              slots == {pv.s_id : pv \in pvs}
              old == lStable[i].proposals
              new == lStable'[i].proposals
              b == lStable[i].ballot
              due == {s \in DOMAIN new : lStable[i].decided = -1 \/ s > lStable[i].decided}
          IN /\ DOMAIN new = slots \cup DOMAIN old
             /\ \A s \in slots : \E pv \in pvs :
                   /\ pv.s_id = s /\ new[s] = pv.command
                   /\ \A q \in pvs : q.s_id = s => BallotLe(q.b_id, pv.b_id)
             /\ \A s \in (DOMAIN old) \ slots : new[s] = old[s]
             /\ \A s \in due :
                   /\ Cardinality({cm \in commanders'[i] : ~cm.frozen /\ SameId(cm, b, s)}) = 1
                   /\ \A cm \in commanders'[i] : (~cm.frozen /\ SameId(cm, b, s)) =>
                         cm.command = new[s] /\ cm.waiting = Srv
                   /\ \A a \in {i} \cup peers[i] : P2AMsg(PValue(s, b, new[s]), a) \in msgs'
             /\ \A cm \in NewCommanders(i) : cm.b_id = b /\ cm.s_id \in due
             /\ active'[i]
             /\ lStable'[i].ballot = b /\ lStable'[i].decided = lStable[i].decided
             /\ lDisk'[i] = lStable'[i]]_vars

\* An active Leader whose proposals have the command of a pvalue for slot 0
\* and the command that its Replica proposed for slot 1, with a Commander
\* for each.
C29_Witness ==
    /\ active[0]
    /\ DOMAIN lStable[0].proposals = {0, 1}
    /\ lStable[0].proposals[0] = Cmd(1, 1, 1)
    /\ lStable[0].proposals[1] = Cmd(3, 1, 1)
    /\ Cardinality(commanders[0]) = 2

\* C30: when the Leader takes a Preempt of a ballot not above its own,
\* nothing of it changes and no Scout is created; otherwise it is inactive,
\* its ballot is (the number of the Preempt's ballot + 1, its id), above
\* both the Preempt's ballot and its former one, the record is saved, one
\* Scout of the new ballot is the only one registered in the hub, and no
\* Commander is new.  A Leader that is not active gets a new Commander only
\* by an Adopt.
C30_Preempt ==
    [][\A i \in Srv :
          /\ LeaderTakes(i, "Preempt") =>
                LET bp == Head(lInbox[i]).ballot
                    b == lStable[i].ballot
                    nb == lStable'[i].ballot
                IN IF BallotLe(bp, b)
                   THEN /\ lStable'[i] = lStable[i] /\ lDisk'[i] = lDisk[i]
                        /\ active'[i] = active[i]
                        /\ scouts'[i] = scouts[i] /\ commanders'[i] = commanders[i]
                        /\ msgs' = msgs
                   ELSE /\ ~active'[i]
                        /\ nb = Ballot(bp.b_id + 1, i)
                        /\ BallotLt(bp, nb) /\ BallotLt(b, nb)
                        /\ lStable'[i] = [lStable[i] EXCEPT !.ballot = nb]
                        /\ lDisk'[i] = lStable'[i]
                        /\ {sc \in scouts'[i] : ~sc.frozen} =
                              {[ballot |-> nb, decided |-> lStable[i].decided,
                                waiting |-> Srv, pvalues |-> {}, frozen |-> FALSE,
                                queued |-> {}]}
                        /\ \A sc \in scouts[i] : \E x \in scouts'[i] :
                              x.frozen /\ x.ballot = sc.ballot
                        /\ Cardinality(scouts'[i]) = Cardinality(scouts[i]) + 1
                        /\ commanders'[i] = commanders[i]
          /\ (~active[i] /\ NewCommanders(i) # {}) => LeaderTakes(i, "Adopt")]_vars

\* The Leader has taken a Preempt of a higher ballot and then one that its
\* new ballot is above: it is inactive with its second ballot, one message
\* is left in its channel and none of its Commanders is left.
C30_Witness ==
    /\ ~active[0] /\ lStable[0].ballot = Ballot(2, 0)
    /\ lInbox[0] = <<>>
    /\ commanders[0] = {}
    /\ Cardinality({m \in msgs : m.type = "P2B" /\ m.b_id = Ballot(1, 1)}) = 2

\* The slots of the proposals of Leader i for whose command the Leader has
\* not yet created a Commander: they were recorded while it was not active.
Deferred(i) ==
    {s \in DOMAIN lStable[i].proposals :
        /\ lStable[i].decided = -1 \/ s > lStable[i].decided
        /\ \A r \in hist.spawned :
              ~(r.by = i /\ r.pvalue.s_id = s /\ r.pvalue.command = lStable[i].proposals[s])}

\* What C31 says of a step in which Leader i takes a Propose.
ProposeEffect(i) ==
    LET m == Head(lInbox[i])
        st == lStable[i]
        pv == PValue(m.s_id, st.ballot, m.command)
    IN IF m.s_id \in DOMAIN st.proposals \/ (st.decided # -1 /\ m.s_id <= st.decided)
       THEN /\ lStable'[i] = st /\ lDisk'[i] = lDisk[i] /\ active'[i] = active[i]
            /\ commanders'[i] = commanders[i] /\ scouts'[i] = scouts[i]
            /\ msgs' = msgs
       ELSE /\ lStable'[i] = [st EXCEPT !.proposals = MapInsert(@, m.s_id, m.command)]
            /\ lDisk'[i] = lStable'[i]
            /\ active'[i] = active[i] /\ scouts'[i] = scouts[i]
            /\ IF active[i]
               THEN /\ NewCommanders(i) = {NewCommander(pv)}
                    /\ \A a \in {i} \cup peers[i] : P2AMsg(pv, a) \in msgs'
               ELSE /\ commanders'[i] = commanders[i] /\ msgs' = msgs
                    /\ m.s_id \in Deferred(i)'

C32_Decide ==
    [][\A i \in Srv :
          /\ LeaderTakes(i, "Decide") =>
                LET s == Head(lInbox[i]).s_id
                    st == lStable[i]
                IN /\ lStable'[i].decided = (IF st.decided > s THEN st.decided ELSE s)
                   /\ DOMAIN lStable'[i].proposals = (DOMAIN st.proposals) \ {s}
                   /\ \A k \in DOMAIN lStable'[i].proposals :
                         lStable'[i].proposals[k] = st.proposals[k]
                   /\ lStable'[i].ballot = st.ballot
                   /\ lDisk'[i] = lStable'[i]
                   /\ active'[i] = active[i]
                   /\ scouts'[i] = scouts[i] /\ commanders'[i] = commanders[i]
                   /\ msgs' = msgs
          /\ lStable'[i].decided >= lStable[i].decided
          /\ \A cm \in NewCommanders(i) : cm.s_id > lStable[i].decided]_vars

\* The Leader has taken Decide(1) and then an Adopt with a pvalue for slot 0:
\* it is active, its proposals hold the command of the pvalue and it has
\* never created a Commander.
C32_Witness ==
    /\ active[0] /\ lStable[0].decided = 1
    /\ DOMAIN lStable[0].proposals = {0}
    /\ lStable[0].proposals[0] = Cmd(1, 1, 1)
    /\ commanders[0] = {} /\ hist.spawned = {}

\* C33: once a Decision for slot s has reached the Replica of a server, the
\* decided of the Leader of that server eventually is at least s.
C33_DecidedTracked ==
    \A s \in 0 .. MaxSlot :
        (up[0] /\ s \in DOMAIN rStable[0].decisions) ~> (lStable[0].decided >= s)

\* What C34 says of a step in which Acceptor a takes the P2A of pvalue pv.
P2AEffect(a, pv) ==
    LET st == aStable[a]
        ok == BallotLe(st.ballot, pv.b_id)
        reply == P2BMsg(pv.b_id, pv.s_id, a, aStable'[a].ballot, pv.b_id.l_id)
    IN /\ ok => /\ aStable'[a].ballot = pv.b_id
                /\ DOMAIN aStable'[a].accepted = (DOMAIN st.accepted) \cup {pv.s_id}
                /\ aStable'[a].accepted[pv.s_id] = pv
                /\ \A k \in (DOMAIN st.accepted) \ {pv.s_id} :
                      aStable'[a].accepted[k] = st.accepted[k]
                /\ aDisk'[a] = aStable'[a]
       /\ ~ok => aStable'[a] = st /\ aDisk'[a] = aDisk[a]
       /\ msgs' \ msgs \subseteq {reply}
       /\ pv.b_id.l_id \in {a} \cup peers[a] => reply \in msgs'
       /\ hist'.lastReply[a] = aStable'[a].ballot
       /\ (aStable'[a].ballot = pv.b_id) <=> ok

\* C34: when the Acceptor takes a P2A of pvalue (s, b, c) and b is at least
\* its ballot, its ballot becomes b, accepted[s] becomes the pvalue, the
\* other slots stay and the record is saved; when b is below its ballot, the
\* record in memory and on disk stays; in both cases the one message it
\* sends is the P2B with its id and its ballot after the step, to the Leader
\* of b, tagged (b, s), and that ballot is b exactly if it accepted.
C34_P2A ==
    [][\A pv \in InPValues :
          HandleP2A(0, P2AMsg(pv, 0)) => P2AEffect(0, pv)]_vars

\* The Acceptor has accepted a pvalue of ballot (1, 0) for slot 1, then one
\* of ballot (2, 0) for slot 0, and has refused one of ballot (1, 0) for
\* slot 0: the P2B of that Commander carries ballot (2, 0).
C34_Witness ==
    /\ aStable[0].ballot = Ballot(2, 0)
    /\ DOMAIN aStable[0].accepted = {0, 1}
    /\ aStable[0].accepted[0].b_id = Ballot(2, 0)
    /\ aStable[0].accepted[1].b_id = Ballot(1, 0)
    /\ P2BMsg(Ballot(1, 0), 0, 0, Ballot(2, 0), 0) \in msgs
    /\ P2BMsg(Ballot(2, 0), 0, 0, Ballot(2, 0), 0) \in msgs
    /\ hist.crashes = 0

\* What C35 says of a step in which Acceptor a takes a P1A of ballot b with
\* the hint d (-1: none).
P1AEffect(a, b, d) ==
    LET st == aStable[a]
        top == IF BallotLt(st.ballot, b) THEN b ELSE st.ballot
        kept == {pv \in {st.accepted[s] : s \in DOMAIN st.accepted} : d = -1 \/ pv.s_id > d}
        reply == P1BMsg(a, top, kept, b.l_id)
    IN /\ aStable'[a].ballot = top
       /\ aStable'[a].accepted = st.accepted
       /\ aDisk'[a] = aStable'[a]
       /\ msgs' \ msgs \subseteq {reply}
       /\ b.l_id \in {a} \cup peers[a] => reply \in msgs'
       /\ hist'.lastReply[a] = top

\* C35: when the Acceptor takes a P1A of ballot b with hint d, its ballot
\* becomes the greater of its ballot and b, its accepted map stays, and the
\* one message it sends is the P1B to the Leader of b with its id, its
\* ballot after the step and exactly the stored pvalues of a slot above d
\* (all of them without a hint).
C35_P1A ==
    [][\A b \in InBallots : \A d \in -1 .. MaxSlot :
          HandleP1A(0, P1AMsg(b, d, 0)) => P1AEffect(0, b, d)]_vars

\* The Acceptor holds pvalues for slots 0 and 1 and has answered a P1A with
\* hint 0 by the pvalue of slot 1 alone and a P1A without a hint by both.
C35_Witness ==
    /\ DOMAIN aStable[0].accepted = {0, 1}
    /\ \E m \in msgs : /\ m.type = "P1B" /\ m.b_id = aStable[0].ballot
                        /\ m.pvalues = {aStable[0].accepted[1]}
    /\ \E m \in msgs : /\ m.type = "P1B" /\ m.b_id = aStable[0].ballot
                        /\ m.pvalues = {aStable[0].accepted[0], aStable[0].accepted[1]}

\* The Propose messages that the step puts in the channel of Leader r
Proposed(r) ==
    {lInbox'[r][k] : k \in (Len(lInbox[r]) + 1) .. Len(lInbox'[r])}

\* C36: when the Replica takes a request c of which a decision has the key,
\* nothing of it changes and nothing is sent; otherwise c is recorded under
\* its proposal cursor and proposed for it, a slot for which it held neither
\* a proposal nor a decision.  In every step a slot that gets a proposal had
\* none and has no decision, every proposal made stays, every Propose sent
\* is for a slot that has just got its proposal, and the proposal cursor
\* does not decrease.
C36_Propose ==
    [][\A r \in Srv :
          LET st == rStable[r]
              new == (DOMAIN rStable'[r].proposals) \ (DOMAIN st.proposals)
          IN /\ \A c \in Commands : HandleRequest(r, c) =>
                   IF \E s \in DOMAIN st.decisions : CmdEq(st.decisions[s], c)
                   THEN rStable'[r] = st /\ rDisk'[r] = rDisk[r] /\ lInbox'[r] = lInbox[r]
                   ELSE /\ new = {rStable'[r].proposal_slot}
                        /\ rStable'[r].proposals[rStable'[r].proposal_slot] = c
                        /\ rStable'[r].decisions = st.decisions
                        /\ rStable'[r].decision_slot = st.decision_slot
                        /\ rDisk'[r] = rStable'[r]
                        /\ lInbox'[r] = Append(lInbox[r],
                                               ProposeMsg(rStable'[r].proposal_slot, c))
             /\ \A s \in new : s \notin DOMAIN st.decisions /\ s \notin DOMAIN rStable'[r].decisions
             /\ \A s \in DOMAIN st.proposals :
                   s \in DOMAIN rStable'[r].proposals /\ rStable'[r].proposals[s] = st.proposals[s]
             /\ rStable'[r].proposal_slot >= st.proposal_slot
             /\ (up[r] /\ up'[r]) =>
                   /\ Len(lInbox'[r]) = Len(lInbox[r]) + Cardinality(new)
                   /\ \A m \in Proposed(r) :
                         m.s_id \in new /\ m.command = rStable'[r].proposals[m.s_id]]_vars

\* The proposal for slot 0 lost to another command, was proposed again for
\* slot 2, after slot 1 had been decided, and a later request got slot 3.
C36_Witness ==
    /\ DOMAIN rStable[0].proposals = {0, 2, 3}
    /\ DOMAIN rStable[0].decisions = {0, 1}
    /\ rStable[0].proposals[2] = rStable[0].proposals[0]
    /\ rStable[0].proposal_slot = 3
    /\ Len(lInbox[0]) = 3

\* Command c is decided in the record st, or is a proposal of it for a slot
\* at or above its decision cursor.
DecidedOrPending(st, c) ==
    \/ \E d \in DOMAIN st.decisions : CmdEq(st.decisions[d], c)
    \/ \E t \in DOMAIN st.proposals : t >= st.decision_slot /\ CmdEq(st.proposals[t], c)

\* C37: in every step in which the decision cursor of a Replica passes a
\* slot s whose proposal c2 has another key than the decision of s, c2 is
\* decided at some slot, or a Propose for c2 and a slot above s is sent and
\* recorded; every command in the proposals of the Replica, in memory and in
\* every record it has saved (so also the one saved before the decision of
\* s is performed), is decided or pending at or above the decision cursor;
\* and so is every command requested from the Replica of a cluster of one
\* that has not stopped.
C37_NoRequestLost ==
    [][\A r \in Srv :
          LET st == rStable[r]
              nx == rStable'[r]
          IN /\ \A s \in DOMAIN nx.proposals : DecidedOrPending(nx, nx.proposals[s])
             /\ rDisk'[r] # NoRecord =>
                   \A s \in DOMAIN rDisk'[r].proposals :
                       DecidedOrPending(rDisk'[r], rDisk'[r].proposals[s])
             /\ (count = 1 /\ hist'.crashes = 0) =>
                   \A c \in hist'.requested : DecidedOrPending(nx, c)
             /\ (up[r] /\ up'[r]) =>
                   \A s \in st.decision_slot .. (nx.decision_slot - 1) :
                       (s \in DOMAIN st.proposals /\ ~CmdEq(st.proposals[s], nx.decisions[s])) =>
                           \/ \E d \in DOMAIN nx.decisions :
                                 CmdEq(nx.decisions[d], st.proposals[s])
                           \/ \E m \in Proposed(r) :
                                 /\ m.s_id > s /\ m.command = st.proposals[s]
                                 /\ m.s_id \notin DOMAIN st.proposals
                                 /\ nx.proposals[m.s_id] = m.command]_vars

\* The record st has a decision for every slot below its decision cursor.
Complete(st) == \A s \in 0 .. (st.decision_slot - 1) : s \in DOMAIN st.decisions

\* C38: in memory and in the record on disk, whenever the process may have
\* ended, a Replica has a decision for every slot below its decision cursor;
\* the cursor never decreases, a restart included, and every slot it passes
\* in a step has a decision.
C38_Cursor ==
    [][\A r \in Srv :
          /\ Complete(rStable'[r])
          /\ rDisk'[r] # NoRecord => Complete(rDisk'[r])
          /\ rStable'[r].decision_slot >= rStable[r].decision_slot
          /\ \A s \in rStable[r].decision_slot .. (rStable'[r].decision_slot - 1) :
                s \in DOMAIN rStable'[r].decisions]_vars

P1AOf(sc, a) == P1AMsg(sc.ballot, sc.decided, a)

P2AOf(cm, a) == P2AMsg(PValue(cm.s_id, cm.b_id, cm.command), a)

\* What a tick of the timer of a task sends: its request to every acceptor
\* whose answer with its ballot it has not taken, nothing to the others, and
\* nothing else.
TickEffect(waiting, request(_)) ==
    /\ \A a \in waiting : request(a) \in msgs'
    /\ \A a \in Srv \ waiting : request(a) \in msgs' <=> request(a) \in msgs
    /\ msgs' \ msgs \subseteq {request(a) : a \in Srv}
    /\ msgs \subseteq msgs'

ScoutTickEffect(sc) == LET request(a) == P1AOf(sc, a) IN TickEffect(sc.waiting, request)

CommanderTickEffect(cm) ==
    LET request(a) == P2AOf(cm, a) IN TickEffect(cm.waiting, request)

ScoutLacks(a) == \E sc \in scouts[0] : a \in sc.waiting /\ P1AOf(sc, a) \notin msgs

ScoutServed(a) == \A sc \in scouts[0] : a \in sc.waiting => P1AOf(sc, a) \in msgs

CommanderLacks(s, a) ==
    \E cm \in commanders[0] : cm.s_id = s /\ a \in cm.waiting /\ P2AOf(cm, a) \notin msgs

CommanderServed(s, a) ==
    \A cm \in commanders[0] : (cm.s_id = s /\ a \in cm.waiting) => P2AOf(cm, a) \in msgs

\* C39: a Commander sends its P2A to all N acceptors when it is created; a
\* Scout waits for all N acceptors until its first tick, which sends its P1A
\* to all of them; every tick of a Scout or Commander sends the same request
\* to exactly the acceptors whose answer with its ballot the task has not
\* taken, and to no other; and a request that is lost on its way to an
\* acceptor is sent again, unless the task has ended or has taken an answer
\* of that acceptor in the meantime.
C39_Retransmit ==
    /\ [](msgs = {} => \A sc \in scouts[0] : sc.waiting = Srv)
    /\ [][/\ \A cm \in commanders'[0] \ commanders[0] :
                cm.waiting = Srv => \A a \in Srv : P2AOf(cm, a) \in msgs'
          /\ \A sc \in scouts[0] : ScoutTick(0, sc) => ScoutTickEffect(sc)
          /\ \A cm \in commanders[0] : CommanderTick(0, cm) => CommanderTickEffect(cm)]_vars
    /\ \A a \in 0 .. 1 : ScoutLacks(a) ~> ScoutServed(a)
    /\ \A a \in 0 .. 1 : \A s \in 0 .. 1 :
          CommanderLacks(s, a) ~> CommanderServed(s, a)

\* A Scout that an acceptor has answered and whose request is in flight to
\* every acceptor it still waits for, after the network lost one of its
\* requests: the lost request has been sent again, the answered one has not.
C39_Witness ==
    /\ sched >= 1
    /\ commanders[0] = {}
    /\ \E sc \in scouts[0] :
          /\ sc.waiting # {} /\ 0 \notin sc.waiting
          /\ \A w \in sc.waiting : P1AOf(sc, w) \in msgs
          /\ \A a \in Srv \ sc.waiting : P1AOf(sc, a) \notin msgs

\* The hub after the step but for the record of the last call.
HubKept == [hub' EXCEPT !.last = hub.last] = hub

RolesKept ==
    UNCHANGED <<count, up, aStable, aDisk, lStable, lDisk, active, lInbox, scouts,
                commanders, rStable, rDisk, executed, msgs, hist, store, peers>>

\* The destination of message m, handed to State::forward, is missing: a
\* P2B for a CommanderID that is not registered, a P1B when the Scout has
\* ended.
NoReceiver(m) ==
    \/ m.type = "P2B" /\ <<m.c_b, m.c_s>> \notin DOMAIN hub.commander_txs
    \/ m.type = "P1B" /\ ~hub.scout_open

\* C40: a send to a missing destination drops the message and changes
\* nothing: State::send to a server id without an entry in the peers map, a
\* P2B for a CommanderID without a registered Commander, a P1B when the Scout
\* has ended, a response for a ClientID without a registered client, whether
\* the message comes from a task of the server or from a peer.  The maps and
\* channels of the hub and the state of every role stay as they were, and
\* the caller goes on (the call is counted in `sched`).
C40_MissingDestination ==
    [][/\ (/\ hub'.last[1] = "send"
           /\ \/ hub'.last[2] # hub.id /\ hub'.last[2] \notin DOMAIN hub.peer_txs
              \/ hub'.last[2] = hub.id /\ NoReceiver(hub'.last[3]))
          => (HubKept /\ RolesKept /\ sched' = sched + 1)
       /\ (hub'.last[1] = "incoming" /\ NoReceiver(hub'.last[3]))
          => (HubKept /\ RolesKept /\ sched' = sched + 1)
       /\ (hub'.last[1] = "respond" /\ hub'.last[2] \notin DOMAIN hub.client_txs)
          => (HubKept /\ RolesKept /\ sched' = sched + 1)]_vars

\* A second call has sent a P2B to the own id when no Commander is
\* registered under its id, while a Peer task is connected and a Commander
\* is registered under another id, and their channels are empty.
C40_Witness ==
    /\ sched = 2
    /\ hub.last[1] = "send" /\ hub.last[2] = hub.id /\ hub.last[3].type = "P2B"
    /\ <<hub.last[3].c_b, hub.last[3].c_s>> \notin DOMAIN hub.commander_txs
    /\ \E cid \in DOMAIN hub.commander_txs : hub.commander_txs[cid] = <<>>
    /\ \E n \in DOMAIN hub.links : hub.links[n].rx = <<>>

====
